---------------------------- MODULE Spec2Model ----------------------------
(***************************************************************************)
(* A model of the SENTINEL player baseline and correlation engine          *)
(* (sentinel-baseline.ts), the detection dispatch (sentinel-core.ts) and   *)
(* the five detector plug-ins.                                             *)
(*                                                                         *)
(* Numbers.  The program computes with IEEE doubles.  The model computes   *)
(* with exact rationals [n, d] (d > 0, lowest terms); a square root is     *)
(* kept as the rational under the root, so stddev is [sq |-> variance]     *)
(* and a z-score is a sign together with the square of its magnitude.      *)
(* Every comparison the code makes on such a number is decided exactly.    *)
(* Floating-point rounding is therefore outside the model.                 *)
(***************************************************************************)
EXTENDS Integers, Sequences, FiniteSets, TLC

----------------------------------------------------------------------------
(* Exact rational arithmetic *)

Abs(x) == IF x < 0 THEN -x ELSE x

RECURSIVE GCD(_, _)
GCD(a, b) == IF b = 0 THEN a ELSE GCD(b, a % b)

\* The rational n/d in lowest terms with a positive denominator.
R(n, d) ==
    LET s == IF d < 0 THEN -1 ELSE 1
        g == GCD(Abs(n), Abs(d))
    IN  [n |-> (s * n) \div g, d |-> (s * d) \div g]

Zero == [n |-> 0, d |-> 1]

RAdd(a, b) ==
    IF a.d = b.d THEN R(a.n + b.n, a.d)
    ELSE LET g == GCD(a.d, b.d)
         IN  R(a.n * (b.d \div g) + b.n * (a.d \div g), (a.d \div g) * b.d)

RNeg(a) == [n |-> -a.n, d |-> a.d]

RSub(a, b) == RAdd(a, RNeg(b))

RMul(a, b) ==
    LET g1 == GCD(Abs(a.n), b.d)
        g2 == GCD(Abs(b.n), a.d)
    IN  R((a.n \div g1) * (b.n \div g2), (a.d \div g2) * (b.d \div g1))

\* a / b for b # 0
RDiv(a, b) == RMul(a, R(b.d, b.n))

RLt(a, b) ==
    LET g == GCD(a.d, b.d)
    IN  a.n * (b.d \div g) < b.n * (a.d \div g)

RLe(a, b) == ~RLt(b, a)

RAbs(a) == [n |-> Abs(a.n), d |-> a.d]

RSign(a) == IF a.n > 0 THEN 1 ELSE IF a.n < 0 THEN -1 ELSE 0

\* Math.sqrt(x) for x >= 0, kept as the rational under the root.
Sqrt(x) == [sq |-> x]

\* Math.sqrt(x) < r
RootLt(s, r) == RSign(r) > 0 /\ RLt(s.sq, RMul(r, r))

\* a signed root: sgn * sqrt(sq)
ZeroRoot == [sgn |-> 0, sq |-> Zero]

\* x / s for a root s # 0
DivByRoot(x, s) == [sgn |-> RSign(x), sq |-> RDiv(RMul(x, x), s.sq)]

\* Math.abs(z) > r
AbsRootGt(z, r) == RSign(r) < 0 \/ RLt(RMul(r, r), z.sq)

\* z > r
RootGt(z, r) ==
    IF RSign(r) >= 0
    THEN z.sgn > 0 /\ RLt(RMul(r, r), z.sq)
    ELSE z.sgn >= 0 \/ RLt(z.sq, RMul(r, r))

\* z < r
RootLtR(z, r) == RootGt([sgn |-> -z.sgn, sq |-> z.sq], RNeg(r))

----------------------------------------------------------------------------
(* sentinel-baseline.ts: configuration *)

DEFAULT_CONFIG ==
    [ correlationWindowMs   |-> 60000,
      baselineSamples       |-> 50,
      deviationThreshold    |-> R(5, 2),
      minSamplesForBaseline |-> 5,
      autobanConfidence     |-> R(85, 100),
      shadowbanConfidence   |-> R(65, 100),
      flagConfidence        |-> R(40, 100) ]

----------------------------------------------------------------------------
(* sentinel-baseline.ts: statistical utilities *)

RECURSIVE SumOf(_)
SumOf(values) ==
    IF values = << >> THEN Zero
    ELSE RAdd(SumOf(SubSeq(values, 1, Len(values) - 1)), values[Len(values)])

calculateMean(values) ==
    IF Len(values) = 0 THEN Zero
    ELSE RDiv(SumOf(values), R(Len(values), 1))

RECURSIVE SquaredDiffs(_, _)
SquaredDiffs(values, mean) ==
    IF values = << >> THEN Zero
    ELSE LET v == values[Len(values)]
         IN  RAdd(SquaredDiffs(SubSeq(values, 1, Len(values) - 1), mean),
                  RMul(RSub(v, mean), RSub(v, mean)))

\* mutant: the population standard deviation (divisor n instead of n - 1)
calculateStdDevPopulation(values) ==
    IF Len(values) < 3 THEN Sqrt(Zero)
    ELSE Sqrt(RDiv(SquaredDiffs(values, calculateMean(values)),
                   R(Len(values), 1)))

\* mutant: the sentinel applies below 2 samples instead of below 3
calculateStdDevFromTwo(values) ==
    IF Len(values) < 2 THEN Sqrt(Zero)
    ELSE Sqrt(RDiv(SquaredDiffs(values, calculateMean(values)),
                   R(Len(values) - 1, 1)))

calculateStdDev(values) ==
    IF Len(values) < 3 THEN Sqrt(Zero)
    ELSE Sqrt(RDiv(SquaredDiffs(values, calculateMean(values)),
                   R(Len(values) - 1, 1)))

----------------------------------------------------------------------------
(* sentinel-baseline.ts: rolling windows *)

\* the window getMetricProfile creates
NewProfile(config) ==
    [values |-> << >>, maxSamples |-> config.baselineSamples,
     mean |-> Zero, stddev |-> Sqrt(Zero)]

\* mutant: evicts on reaching the capacity instead of on exceeding it
pushSampleEvictAtCap(profile, value) ==
    LET appended == Append(profile.values, value)
        shifted  == IF Len(appended) >= profile.maxSamples
                    THEN Tail(appended) ELSE appended
    IN  [profile EXCEPT !.values = shifted,
                        !.mean   = calculateMean(shifted),
                        !.stddev = calculateStdDev(shifted)]

\* mutant: the statistics are recomputed before the eviction
pushSampleStaleStats(profile, value) ==
    LET appended == Append(profile.values, value)
        shifted  == IF Len(appended) > profile.maxSamples
                    THEN Tail(appended) ELSE appended
    IN  [profile EXCEPT !.values = shifted,
                        !.mean   = calculateMean(appended),
                        !.stddev = calculateStdDev(appended)]

pushSample(profile, value) ==
    LET appended == Append(profile.values, value)
        shifted  == IF Len(appended) > profile.maxSamples
                    THEN Tail(appended) ELSE appended
    IN  [profile EXCEPT !.values = shifted,
                        !.mean   = calculateMean(shifted),
                        !.stddev = calculateStdDev(shifted)]

----------------------------------------------------------------------------
(* State *)

VARIABLES
    pipelineToken,     \* _pipelineToken (sentinel-baseline.ts)
    licensePc,         \* position of _initLicenseSubsystem: "fetching" | "done"
    now,               \* Date.now(), in milliseconds
    playerBaselines,   \* the Map playerId -> PlayerBaseline
    detectionCallback, \* the observer slot (sentinel-core.ts)
    calls,             \* the processTelemetry calls made so far, in call order
    pushed,            \* history: every value ever pushed, per <<player, metric>>
    ret                \* history: the last exported call, its arguments and its result

vars == <<pipelineToken, licensePc, now, playerBaselines, detectionCallback,
          calls, pushed, ret>>

Null == "null"

Range(f) == {f[i] : i \in DOMAIN f}

NoCall == [op |-> "none"]

\* (_pipelineToken & 0x1) as a truth value
Ready == pipelineToken % 2 = 1

----------------------------------------------------------------------------
(* sentinel-baseline.ts: the baseline store *)

NewBaseline(playerId) ==
    [playerId |-> playerId, createdAt |-> now, eventCount |-> 0,
     metrics |-> << >>, recentDetections |-> << >>]

\* mutant: a detection exactly correlationWindowMs old is kept
getOrCreateBaselineInclusive(store, playerId, config) ==
    LET s1     == IF playerId \in DOMAIN store THEN store
                  ELSE store @@ (playerId :> NewBaseline(playerId))
        cutoff == now - config.correlationWindowMs
    IN  [s1 EXCEPT ![playerId].recentDetections =
                       SelectSeq(@, LAMBDA d : d.timestamp >= cutoff)]

\* mutant: the lookup is skipped and every call registers a new baseline
getOrCreateBaselineFresh(store, playerId, config) ==
    [q \in DOMAIN store \cup {playerId} |->
        IF q = playerId THEN NewBaseline(playerId) ELSE store[q]]

\* mutant: the detection log is returned as stored, without the filter
getOrCreateBaselineNoPrune(store, playerId, config) ==
    IF playerId \in DOMAIN store THEN store
    ELSE store @@ (playerId :> NewBaseline(playerId))

\* the store after getOrCreateBaseline(playerId, config); the baseline it
\* returns is the store's entry for playerId
getOrCreateBaseline(store, playerId, config) ==
    LET s1     == IF playerId \in DOMAIN store THEN store
                  ELSE store @@ (playerId :> NewBaseline(playerId))
        cutoff == now - config.correlationWindowMs
    IN  [s1 EXCEPT ![playerId].recentDetections =
                       SelectSeq(@, LAMBDA d : d.timestamp > cutoff)]

\* the baseline after getMetricProfile(baseline, metricName, config); the
\* window it returns is the baseline's entry for metricName
getMetricProfile(baseline, metricName, config) ==
    IF metricName \in DOMAIN baseline.metrics THEN baseline
    ELSE [baseline EXCEPT !.metrics = @ @@ (metricName :> NewProfile(config))]

Epsilon == R(1, 1000)

\* mutant: no minimum-sample check
deviatesNoMinSamples(value, profile, config) ==
    IF ~Ready THEN [deviates |-> FALSE, zScore |-> ZeroRoot]
    ELSE IF RootLt(profile.stddev, Epsilon)
    THEN [deviates |-> RLt(Epsilon, RAbs(RSub(value, profile.mean))),
          zScore   |-> ZeroRoot]
    ELSE LET zScore == DivByRoot(RSub(value, profile.mean), profile.stddev)
         IN  [deviates |-> AbsRootGt(zScore, config.deviationThreshold),
              zScore   |-> zScore]

\* mutant: a z-score at the threshold deviates (>= instead of >)
deviatesAtThreshold(value, profile, config) ==
    IF ~Ready THEN [deviates |-> FALSE, zScore |-> ZeroRoot]
    ELSE IF Len(profile.values) < config.minSamplesForBaseline
    THEN [deviates |-> FALSE, zScore |-> ZeroRoot]
    ELSE IF RootLt(profile.stddev, Epsilon)
    THEN [deviates |-> RLt(Epsilon, RAbs(RSub(value, profile.mean))),
          zScore   |-> ZeroRoot]
    ELSE LET zScore == DivByRoot(RSub(value, profile.mean), profile.stddev)
         IN  [deviates |-> ~RootLt(Sqrt(zScore.sq), config.deviationThreshold),
              zScore   |-> zScore]

\* mutant: the degenerate branch uses a tolerance of 0.01 instead of 0.001
deviatesWideTolerance(value, profile, config) ==
    IF ~Ready THEN [deviates |-> FALSE, zScore |-> ZeroRoot]
    ELSE IF Len(profile.values) < config.minSamplesForBaseline
    THEN [deviates |-> FALSE, zScore |-> ZeroRoot]
    ELSE IF RootLt(profile.stddev, Epsilon)
    THEN [deviates |-> RLt(R(1, 100), RAbs(RSub(value, profile.mean))),
          zScore   |-> ZeroRoot]
    ELSE LET zScore == DivByRoot(RSub(value, profile.mean), profile.stddev)
         IN  [deviates |-> AbsRootGt(zScore, config.deviationThreshold),
              zScore   |-> zScore]

\* mutant: the degenerate branch reports a z-score, the distance from the mean
\* in units of 0.0001
deviatesDegenerateScores(value, profile, config) ==
    IF ~Ready THEN [deviates |-> FALSE, zScore |-> ZeroRoot]
    ELSE IF Len(profile.values) < config.minSamplesForBaseline
    THEN [deviates |-> FALSE, zScore |-> ZeroRoot]
    ELSE IF RootLt(profile.stddev, Epsilon)
    THEN [deviates |-> RLt(Epsilon, RAbs(RSub(value, profile.mean))),
          zScore   |-> DivByRoot(RSub(value, profile.mean),
                                 Sqrt(R(1, 100000000)))]
    ELSE LET zScore == DivByRoot(RSub(value, profile.mean), profile.stddev)
         IN  [deviates |-> AbsRootGt(zScore, config.deviationThreshold),
              zScore   |-> zScore]

\* the value deviatesFromBaseline returns
deviatesFromBaseline(value, profile, config) ==
    IF ~Ready THEN [deviates |-> FALSE, zScore |-> ZeroRoot]
    ELSE IF Len(profile.values) < config.minSamplesForBaseline
    THEN [deviates |-> FALSE, zScore |-> ZeroRoot]
    ELSE IF RootLt(profile.stddev, Epsilon)
    THEN [deviates |-> RLt(Epsilon, RAbs(RSub(value, profile.mean))),
          zScore   |-> ZeroRoot]
    ELSE LET zScore == DivByRoot(RSub(value, profile.mean), profile.stddev)
         IN  [deviates |-> AbsRootGt(zScore, config.deviationThreshold),
              zScore   |-> zScore]

\* mutant: the evaluation pushes the value into the window
ProfileAfterDeviatesPushes(value, profile, config) == pushSample(profile, value)

\* the window as deviatesFromBaseline leaves it: the function assigns to no
\* field of its argument
ProfileAfterDeviates(value, profile, config) == profile

MaxDetections == 50

\* mutant: at the cap the entry just appended is dropped (pop for shift)
recordDetectionDropsNewest(baseline, module, confidence) ==
    LET appended == Append(baseline.recentDetections,
                           [module |-> module, confidence |-> confidence,
                            timestamp |-> now])
    IN  [baseline EXCEPT !.recentDetections =
             IF Len(appended) > MaxDetections
             THEN SubSeq(appended, 1, Len(appended) - 1) ELSE appended]

recordDetection(baseline, module, confidence) ==
    LET appended == Append(baseline.recentDetections,
                           [module |-> module, confidence |-> confidence,
                            timestamp |-> now])
    IN  [baseline EXCEPT !.recentDetections =
             IF Len(appended) > MaxDetections THEN Tail(appended) ELSE appended]

\* [...new Set(modules)]: the distinct elements in order of first occurrence
RECURSIVE Unique(_)
Unique(modules) ==
    IF modules = << >> THEN << >>
    ELSE LET front == Unique(SubSeq(modules, 1, Len(modules) - 1))
             last  == modules[Len(modules)]
         IN  IF \E i \in 1..Len(front) : front[i] = last THEN front
             ELSE Append(front, last)

ModulesOf(recent) == [i \in 1..Len(recent) |-> recent[i].module]

\* mutant: the tiers count the log's entries instead of its distinct modules
calculateCrossSignalBonusByEntries(baseline) ==
    LET recent        == baseline.recentDetections
        uniqueModules == Unique(ModulesOf(recent))
    IN  IF Len(recent) < 2 THEN [bonus |-> 0, correlatedModules |-> << >>]
        ELSE IF Len(recent) >= 3
        THEN [bonus |-> 15, correlatedModules |-> uniqueModules]
        ELSE IF Len(recent) >= 2
        THEN [bonus |-> 8, correlatedModules |-> uniqueModules]
        ELSE [bonus |-> 0, correlatedModules |-> << >>]

\* mutant: one earlier detection is enough for the bonus
calculateCrossSignalBonusFromOne(baseline) ==
    LET recent        == baseline.recentDetections
        uniqueModules == Unique(ModulesOf(recent))
    IN  IF Len(recent) < 1 THEN [bonus |-> 0, correlatedModules |-> << >>]
        ELSE IF Len(uniqueModules) >= 3
        THEN [bonus |-> 15, correlatedModules |-> uniqueModules]
        ELSE IF Len(uniqueModules) >= 1
        THEN [bonus |-> 8, correlatedModules |-> uniqueModules]
        ELSE [bonus |-> 0, correlatedModules |-> << >>]

\* mutant: three correlated modules are worth the reporting threshold
calculateCrossSignalBonusLarge(baseline) ==
    LET recent        == baseline.recentDetections
        uniqueModules == Unique(ModulesOf(recent))
    IN  IF Len(recent) < 2 THEN [bonus |-> 0, correlatedModules |-> << >>]
        ELSE IF Len(uniqueModules) >= 3
        THEN [bonus |-> 40, correlatedModules |-> uniqueModules]
        ELSE IF Len(uniqueModules) >= 2
        THEN [bonus |-> 8, correlatedModules |-> uniqueModules]
        ELSE [bonus |-> 0, correlatedModules |-> << >>]

calculateCrossSignalBonus(baseline) ==
    LET recent        == baseline.recentDetections
        uniqueModules == Unique(ModulesOf(recent))
    IN  IF Len(recent) < 2 THEN [bonus |-> 0, correlatedModules |-> << >>]
        ELSE IF Len(uniqueModules) >= 3
        THEN [bonus |-> 15, correlatedModules |-> uniqueModules]
        ELSE IF Len(uniqueModules) >= 2
        THEN [bonus |-> 8, correlatedModules |-> uniqueModules]
        ELSE [bonus |-> 0, correlatedModules |-> << >>]

\* the baseline as calculateCrossSignalBonus leaves it
BaselineAfterBonus(baseline) == baseline

\* Math.min(baseConfidence * 25 * escalation, 100)
calculateRiskEscalation(baseline, baseConfidence) ==
    LET recentCount == Len(baseline.recentDetections)
        escalation  == IF recentCount > 5 THEN R(3, 2)
                       ELSE IF recentCount > 3 THEN R(6, 5) ELSE R(1, 1)
        scaled      == RMul(RMul(baseConfidence, R(25, 1)), escalation)
    IN  IF RLt(scaled, R(100, 1)) THEN scaled ELSE R(100, 1)

\* mutant: no readiness gate
resolveActionNoGate(confidence, config) ==
    IF RLe(config.autobanConfidence, confidence) THEN "permanent_ban"
    ELSE IF RLe(config.shadowbanConfidence, confidence) THEN "shadow_ban"
    ELSE "flag"

\* mutant: the middle tier is a temporary ban
resolveActionTemporary(confidence, config) ==
    IF ~Ready THEN "flag"
    ELSE IF RLe(config.autobanConfidence, confidence) THEN "permanent_ban"
    ELSE IF RLe(config.shadowbanConfidence, confidence) THEN "temporary_ban"
    ELSE "flag"

\* mutant: a confidence at a threshold gets the tier below it
resolveActionStrict(confidence, config) ==
    IF ~Ready THEN "flag"
    ELSE IF RLt(config.autobanConfidence, confidence) THEN "permanent_ban"
    ELSE IF RLt(config.shadowbanConfidence, confidence) THEN "shadow_ban"
    ELSE "flag"

resolveAction(confidence, config) ==
    IF ~Ready THEN "flag"
    ELSE IF RLe(config.autobanConfidence, confidence) THEN "permanent_ban"
    ELSE IF RLe(config.shadowbanConfidence, confidence) THEN "shadow_ban"
    ELSE IF RLe(config.flagConfidence, confidence) THEN "flag"
    ELSE "flag"

----------------------------------------------------------------------------
(* The detector plug-ins: analyzeAim, analyzeInput, analyzePackets,         *)
(* analyzeStats, analyzeBehavior.  A plug-in maps the store, an event and a *)
(* configuration to [kind, store, result]: kind is "result", "null" (the    *)
(* plug-in returned null) or "threw" (it raised an error), store is the     *)
(* store as the plug-in leaves it.                                          *)

\* an absent field, and an absent payload
Undef == [n |-> 0, d |-> 0]

Gt(x, c) == RLt(c, x)

Hit(weight, flag) == [weight |-> weight, flags |-> <<flag>>]
Miss == [weight |-> 0, flags |-> << >>]

RECURSIVE TotalWeight(_)
TotalWeight(checks) ==
    IF checks = << >> THEN 0
    ELSE TotalWeight(SubSeq(checks, 1, Len(checks) - 1)) + checks[Len(checks)].weight

RECURSIVE AllFlags(_)
AllFlags(checks) ==
    IF checks = << >> THEN << >>
    ELSE AllFlags(SubSeq(checks, 1, Len(checks) - 1)) \o checks[Len(checks)].flags

Returned(store, result) == [kind |-> "result", store |-> store, result |-> result]
ReturnedNull(store) == [kind |-> "null", store |-> store, result |-> Undef]
Threw(store) == [kind |-> "threw", store |-> store, result |-> Undef]

\* mutant: the windows are keyed by the metric name alone, across players
PushMetricShared(store, playerId, metric, value, config) ==
    [q \in DOMAIN store |->
        [getMetricProfile(store[q], metric, config)
            EXCEPT !.metrics[metric] = pushSample(@, value)]]

\* getMetricProfile(baseline, metric, config) followed by pushSample(profile, value)
PushMetric(store, playerId, metric, value, config) ==
    [store EXCEPT ![playerId] =
        LET b == getMetricProfile(@, metric, config)
        IN  [b EXCEPT !.metrics[metric] = pushSample(@, value)]]

\* mutant: the value is evaluated against the window as it was before the push
DevOfBeforePush(store, playerId, metric, value, config) ==
    LET w     == store[playerId].metrics[metric]
        prior == SubSeq(w.values, 1, Len(w.values) - 1)
    IN  deviatesFromBaseline(value,
                             [w EXCEPT !.values = prior,
                                       !.mean = calculateMean(prior),
                                       !.stddev = calculateStdDev(prior)],
                             config)

\* deviatesFromBaseline(value, profile, config) on the window just pushed to
DevOf(store, playerId, metric, value, config) ==
    deviatesFromBaseline(value, store[playerId].metrics[metric], config)

SCORE_THRESHOLD == 40

\* mutant: the high-severity threshold is 70 points
SeverityHighFrom70(score) ==
    IF score >= 80 THEN "critical" ELSE IF score >= 70 THEN "high" ELSE "medium"

\* mutant: the high-severity threshold is 50 points
SeverityHighFrom50(score) ==
    IF score >= 80 THEN "critical" ELSE IF score >= 50 THEN "high" ELSE "medium"

Severity(score) ==
    IF score >= 80 THEN "critical" ELSE IF score >= 60 THEN "high" ELSE "medium"

\* mutant: the confidence is not capped
ConfidenceUncapped(score) == R(score, 100)

\* Math.min(score / 100, 0.99)
Confidence(score) ==
    IF RLt(R(score, 100), R(99, 100)) THEN R(score, 100) ELSE R(99, 100)

\* the common tail of the five plug-ins: the cross-signal bonus, the score
\* threshold, recordDetection and the result.  store is the store after the
\* checks, own the checks' contributions, evidenceMetric the window whose sample
\* count the evidence reports, cheatTypes the cheat type at or above a score and
\* the one below it.
CheatTypes(atLeast, high, low) == [atLeast |-> atLeast, high |-> high, low |-> low]

\* mutant: the detection is recorded before the score threshold is tested
ConcludeRecordsFirst(store, event, config, module, own, evidenceMetric, cheatTypes) ==
    LET p           == event.playerId
        correlation == calculateCrossSignalBonus(store[p])
        checks      == IF correlation.bonus > 0
                       THEN Append(own, Hit(correlation.bonus, "cross-signal"))
                       ELSE own
        score       == TotalWeight(checks)
        confidence  == Confidence(score)
        recorded    == [store EXCEPT ![p] = recordDetection(@, module, confidence)]
        final       == [recorded EXCEPT ![p] = getMetricProfile(@, evidenceMetric, config)]
    IN  IF score < SCORE_THRESHOLD THEN ReturnedNull(recorded)
        ELSE Returned(final,
                 [detected |-> TRUE,
                  module |-> module,
                  cheatType |-> IF score >= cheatTypes.atLeast
                                THEN cheatTypes.high ELSE cheatTypes.low,
                  severity |-> Severity(score),
                  confidence |-> confidence,
                  score |-> score,
                  flags |-> AllFlags(checks),
                  baselineSamples |-> Len(final[p].metrics[evidenceMetric].values),
                  crossSignalCorrelation |-> correlation.correlatedModules,
                  recommendedAction |-> resolveAction(confidence, config)])

Conclude(store, event, config, module, own, evidenceMetric, cheatTypes) ==
    LET p           == event.playerId
        correlation == calculateCrossSignalBonus(store[p])
        checks      == IF correlation.bonus > 0
                       THEN Append(own, Hit(correlation.bonus, "cross-signal"))
                       ELSE own
        score       == TotalWeight(checks)
        confidence  == Confidence(score)
        recorded    == [store EXCEPT ![p] = recordDetection(@, module, confidence)]
        final       == [recorded EXCEPT ![p] = getMetricProfile(@, evidenceMetric, config)]
    IN  IF score < SCORE_THRESHOLD THEN ReturnedNull(store)
        ELSE Returned(final,
                 [detected |-> TRUE,
                  module |-> module,
                  cheatType |-> IF score >= cheatTypes.atLeast
                                THEN cheatTypes.high ELSE cheatTypes.low,
                  severity |-> Severity(score),
                  confidence |-> confidence,
                  score |-> score,
                  flags |-> AllFlags(checks),
                  baselineSamples |-> Len(final[p].metrics[evidenceMetric].values),
                  crossSignalCorrelation |-> correlation.correlatedModules,
                  recommendedAction |-> resolveAction(confidence, config)])

\* mutant: an absent value is pushed as 0
TrackedStorePushesAbsent(store, event, config, metric, value) ==
    IF value = Undef THEN PushMetric(store, event.playerId, metric, R(0, 1), config)
    ELSE PushMetric(store, event.playerId, metric, value, config)

\* a check of the form: push, evaluate, then limit or baseline deviation
TrackedStore(store, event, config, metric, value) ==
    IF value = Undef THEN store
    ELSE PushMetric(store, event.playerId, metric, value, config)

(* sentinel-input.ts (Module 1): analyzeAim *)

HUMAN_MAX_SNAP_ANGLE == 120
HUMAN_MIN_REACTION_MS == 80
INHUMAN_TRACKING == R(95, 100)
INHUMAN_SWITCH_MS == 50
AIM_LOCK_SUSPECT_MS == 2000

analyzeAim(store, event, config) ==
    IF event.eventType # "aim_data" THEN ReturnedNull(store)
    ELSE
    LET p    == event.playerId
        data == event.data
        s0   == getOrCreateBaseline(store, p, config)
    IN  IF data = Undef THEN Threw(s0)
        ELSE
        LET s1   == TrackedStore(s0, event, config, "aim.snapAngle", data.snapAngle)
            c1   == IF data.snapAngle = Undef THEN Miss
                    ELSE LET dev == DevOf(s1, p, "aim.snapAngle", data.snapAngle, config)
                         IN  IF Gt(data.snapAngle, R(HUMAN_MAX_SNAP_ANGLE, 1))
                             THEN Hit(30, "snapAngle")
                             ELSE IF dev.deviates /\ RootGt(dev.zScore, R(2, 1))
                                     /\ Gt(data.snapAngle, R(60, 1))
                             THEN Hit(15, "snapAngle.baseline")
                             ELSE Miss
            s2   == TrackedStore(s1, event, config, "aim.trackingSmoothness",
                                 data.trackingSmoothness)
            c2   == IF data.trackingSmoothness = Undef THEN Miss
                    ELSE LET dev == DevOf(s2, p, "aim.trackingSmoothness",
                                          data.trackingSmoothness, config)
                         IN  IF Gt(data.trackingSmoothness, INHUMAN_TRACKING)
                             THEN Hit(25, "trackingSmoothness")
                             ELSE IF dev.deviates /\ RootGt(dev.zScore, R(2, 1))
                                     /\ Gt(data.trackingSmoothness, R(8, 10))
                             THEN Hit(12, "trackingSmoothness.baseline")
                             ELSE Miss
            c3   == IF data.headshotPct # Undef /\ Gt(data.headshotPct, R(65, 1))
                    THEN Hit(20, "headshotPct") ELSE Miss
            c4   == IF data.timeToTarget # Undef
                       /\ RLt(data.timeToTarget, R(HUMAN_MIN_REACTION_MS, 1))
                    THEN Hit(25, "timeToTarget") ELSE Miss
            c5   == IF data.aimLockDuration # Undef
                       /\ Gt(data.aimLockDuration, R(AIM_LOCK_SUSPECT_MS, 1))
                    THEN Hit(15, "aimLockDuration") ELSE Miss
            c6   == IF data.targetSwitchSpeed # Undef
                       /\ RLt(data.targetSwitchSpeed, R(INHUMAN_SWITCH_MS, 1))
                    THEN Hit(20, "targetSwitchSpeed") ELSE Miss
        IN  Conclude(s2, event, config, "AimAnalysis", <<c1, c2, c3, c4, c5, c6>>,
                     "aim.snapAngle",
                     CheatTypes(80, "aimbot", "aim_assist_abuse"))

(* sentinel-input.ts (Module 2): analyzeInput *)

NORMALIZED_ENTROPY_FLOOR == R(3, 10)
HUMAN_MIN_TIMING_VARIANCE == R(5, 10)
SCRIPT_RECOIL_THRESHOLD == R(92, 100)
HUMAN_MAX_MICRO_ADJ == 200
HUMAN_MAX_INPUT_FREQ == 1000
AUTOMATION_REPETITION == R(85, 100)

analyzeInput(store, event, config) ==
    IF event.eventType # "input_data" THEN ReturnedNull(store)
    ELSE
    LET p    == event.playerId
        data == event.data
        s0   == getOrCreateBaseline(store, p, config)
    IN  IF data = Undef THEN Threw(s0)
        ELSE
        LET s1   == TrackedStore(s0, event, config, "input.entropy", data.inputEntropy)
            c1   == IF data.inputEntropy = Undef THEN Miss
                    ELSE LET dev == DevOf(s1, p, "input.entropy", data.inputEntropy, config)
                         IN  IF RLt(data.inputEntropy, NORMALIZED_ENTROPY_FLOOR)
                             THEN Hit(30, "inputEntropy")
                             ELSE IF dev.deviates /\ RootLtR(dev.zScore, R(-2, 1))
                             THEN Hit(15, "inputEntropy.baseline")
                             ELSE Miss
            s2   == TrackedStore(s1, event, config, "input.timingVariance",
                                 data.timingVariance)
            c2   == IF data.timingVariance # Undef
                       /\ RLt(data.timingVariance, HUMAN_MIN_TIMING_VARIANCE)
                    THEN Hit(25, "timingVariance") ELSE Miss
            c3   == IF data.recoilPattern # Undef
                       /\ Gt(data.recoilPattern, SCRIPT_RECOIL_THRESHOLD)
                    THEN Hit(30, "recoilPattern") ELSE Miss
            c4   == IF data.microAdjustments # Undef
                       /\ Gt(data.microAdjustments, R(HUMAN_MAX_MICRO_ADJ, 1))
                    THEN Hit(20, "microAdjustments") ELSE Miss
            c5   == IF data.inputFrequency # Undef
                       /\ Gt(data.inputFrequency, R(HUMAN_MAX_INPUT_FREQ, 1))
                    THEN Hit(15, "inputFrequency") ELSE Miss
            c6   == IF data.patternRepetition # Undef
                       /\ Gt(data.patternRepetition, AUTOMATION_REPETITION)
                    THEN Hit(25, "patternRepetition") ELSE Miss
        IN  Conclude(s2, event, config, "InputAnalysis", <<c1, c2, c3, c4, c5, c6>>,
                     "input.entropy",
                     CheatTypes(70, "cronus_zen", "macro_script"))

(* sentinel-input.ts (Module 3): analyzePackets *)

CHEAT_PACKET_RATE == 300
BURST_THRESHOLD == 15
MAX_PACKET_SIZE == 2048
OUT_OF_ORDER_THRESHOLD == 10
DUPLICATE_THRESHOLD == 5
SUSPICIOUS_PAYLOAD_THRESHOLD == 3

analyzePackets(store, event, config) ==
    IF event.eventType # "packet_data" THEN ReturnedNull(store)
    ELSE
    LET p    == event.playerId
        data == event.data
        s0   == getOrCreateBaseline(store, p, config)
    IN  IF data = Undef THEN Threw(s0)
        ELSE
        LET s1   == TrackedStore(s0, event, config, "packet.rate", data.packetRate)
            c1   == IF data.packetRate = Undef THEN Miss
                    ELSE LET dev == DevOf(s1, p, "packet.rate", data.packetRate, config)
                         IN  IF Gt(data.packetRate, R(CHEAT_PACKET_RATE, 1))
                             THEN Hit(25, "packetRate")
                             ELSE IF dev.deviates /\ RootGt(dev.zScore, R(5, 2))
                             THEN Hit(12, "packetRate.baseline")
                             ELSE Miss
            c2   == IF data.burstCount # Undef
                       /\ Gt(data.burstCount, R(BURST_THRESHOLD, 1))
                    THEN Hit(30, "burstCount") ELSE Miss
            c3   == IF data.avgPacketSize # Undef
                       /\ Gt(data.avgPacketSize, R(MAX_PACKET_SIZE, 1))
                    THEN Hit(20, "avgPacketSize") ELSE Miss
            c4   == IF data.outOfOrder # Undef
                       /\ Gt(data.outOfOrder, R(OUT_OF_ORDER_THRESHOLD, 1))
                    THEN Hit(25, "outOfOrder") ELSE Miss
            c5   == IF data.duplicateRate # Undef
                       /\ Gt(data.duplicateRate, R(DUPLICATE_THRESHOLD, 1))
                    THEN Hit(20, "duplicateRate") ELSE Miss
            c6   == IF data.suspiciousPayloads # Undef
                       /\ Gt(data.suspiciousPayloads, R(SUSPICIOUS_PAYLOAD_THRESHOLD, 1))
                    THEN Hit(30, "suspiciousPayloads") ELSE Miss
        IN  Conclude(s1, event, config, "PacketAnalysis", <<c1, c2, c3, c4, c5, c6>>,
                     "packet.rate",
                     IF data.duplicateRate # Undef
                        /\ Gt(data.duplicateRate, R(DUPLICATE_THRESHOLD, 1))
                     THEN CheatTypes(0, "packet_injection", "packet_injection")
                     ELSE CheatTypes(0, "network_manipulation", "network_manipulation"))

(* sentinel-types.ts (Module 4): analyzeStats *)

IMPOSSIBLE_KD == 8
IMPOSSIBLE_WIN_RATE == 85
EXTREME_Z_SCORE == R(35, 10)
ANOMALOUS_SPREE == R(6, 10)
INHUMAN_DEATHLESS == 40

analyzeStats(store, event, config) ==
    IF event.eventType # "stats_data" THEN ReturnedNull(store)
    ELSE
    LET p    == event.playerId
        data == event.data
        s0   == getOrCreateBaseline(store, p, config)
    IN  IF data = Undef THEN Threw(s0)
        ELSE
        LET s1   == TrackedStore(s0, event, config, "stats.kdRatio", data.kdRatio)
            c1   == IF data.kdRatio = Undef THEN Miss
                    ELSE LET dev == DevOf(s1, p, "stats.kdRatio", data.kdRatio, config)
                         IN  IF Gt(data.kdRatio, R(IMPOSSIBLE_KD, 1))
                             THEN Hit(30, "kdRatio")
                             ELSE IF dev.deviates /\ RootGt(dev.zScore, R(5, 2))
                                     /\ Gt(data.kdRatio, R(4, 1))
                             THEN Hit(15, "kdRatio.baseline")
                             ELSE Miss
            c2   == IF data.winRate # Undef
                       /\ Gt(data.winRate, R(IMPOSSIBLE_WIN_RATE, 1))
                    THEN Hit(20, "winRate") ELSE Miss
            c3   == IF data.accuracyZScore # Undef
                       /\ Gt(data.accuracyZScore, EXTREME_Z_SCORE)
                    THEN Hit(25, "accuracyZScore") ELSE Miss
            c4   == IF data.headshotZScore # Undef
                       /\ Gt(data.headshotZScore, EXTREME_Z_SCORE)
                    THEN Hit(25, "headshotZScore") ELSE Miss
            c5   == IF data.spreeFrequency # Undef
                       /\ Gt(data.spreeFrequency, ANOMALOUS_SPREE)
                    THEN Hit(15, "spreeFrequency") ELSE Miss
            c6   == IF data.deathlessStreak # Undef
                       /\ Gt(data.deathlessStreak, R(INHUMAN_DEATHLESS, 1))
                    THEN Hit(20, "deathlessStreak") ELSE Miss
        IN  Conclude(s1, event, config, "StatisticalAnalysis",
                     <<c1, c2, c3, c4, c5, c6>>, "stats.kdRatio",
                     CheatTypes(0, "statistical_impossibility",
                                "statistical_impossibility"))

(* sentinel-behavior.ts (Module 5): analyzeBehavior *)

HUMAN_MIN_REACTION == 100
AUTOMATION_MOVEMENT == R(2, 10)
WALLHACK_PREFIRE_RATE == 40
WALL_TRACK_THRESHOLD == 5
ESP_SPAWN_PREDICTION == 70
CHEAT_CAMERA_PATTERN == R(8, 10)

\* mutant: the type guard comes after the baseline lookup
analyzeBehaviorLateGuard(store, event, config) ==
    LET p    == event.playerId
        data == event.data
        s0   == getOrCreateBaseline(store, p, config)
    IN  IF event.eventType # "behavior_data" THEN ReturnedNull(s0)
        ELSE IF data = Undef THEN Threw(s0)
        ELSE
        LET s1   == TrackedStore(s0, event, config, "behavior.reactionTime",
                                 data.reactionTime)
            c1   == IF data.reactionTime = Undef THEN Miss
                    ELSE LET dev == DevOf(s1, p, "behavior.reactionTime",
                                          data.reactionTime, config)
                         IN  IF RLt(data.reactionTime, R(HUMAN_MIN_REACTION, 1))
                             THEN Hit(30, "reactionTime")
                             ELSE IF dev.deviates /\ RootLtR(dev.zScore, R(-2, 1))
                                     /\ RLt(data.reactionTime, R(150, 1))
                             THEN Hit(15, "reactionTime.baseline")
                             ELSE Miss
            c2   == IF data.movementEntropy # Undef
                       /\ RLt(data.movementEntropy, AUTOMATION_MOVEMENT)
                    THEN Hit(20, "movementEntropy") ELSE Miss
            c3   == IF data.preFiringRate # Undef
                       /\ Gt(data.preFiringRate, R(WALLHACK_PREFIRE_RATE, 1))
                    THEN Hit(30, "preFiringRate") ELSE Miss
            c4   == IF data.wallTrackEvents # Undef
                       /\ Gt(data.wallTrackEvents, R(WALL_TRACK_THRESHOLD, 1))
                    THEN Hit(35, "wallTrackEvents") ELSE Miss
            c5   == IF data.spawnPrediction # Undef
                       /\ Gt(data.spawnPrediction, R(ESP_SPAWN_PREDICTION, 1))
                    THEN Hit(25, "spawnPrediction") ELSE Miss
            c6   == IF data.cameraBehavior # Undef
                       /\ Gt(data.cameraBehavior, CHEAT_CAMERA_PATTERN)
                    THEN Hit(20, "cameraBehavior") ELSE Miss
        IN  Conclude(s1, event, config, "BehavioralAnalysis",
                     <<c1, c2, c3, c4, c5, c6>>, "behavior.reactionTime",
                     CheatTypes(70, "wallhack_esp", "suspicious_behavior"))

analyzeBehavior(store, event, config) ==
    IF event.eventType # "behavior_data" THEN ReturnedNull(store)
    ELSE
    LET p    == event.playerId
        data == event.data
        s0   == getOrCreateBaseline(store, p, config)
    IN  IF data = Undef THEN Threw(s0)
        ELSE
        LET s1   == TrackedStore(s0, event, config, "behavior.reactionTime",
                                 data.reactionTime)
            c1   == IF data.reactionTime = Undef THEN Miss
                    ELSE LET dev == DevOf(s1, p, "behavior.reactionTime",
                                          data.reactionTime, config)
                         IN  IF RLt(data.reactionTime, R(HUMAN_MIN_REACTION, 1))
                             THEN Hit(30, "reactionTime")
                             ELSE IF dev.deviates /\ RootLtR(dev.zScore, R(-2, 1))
                                     /\ RLt(data.reactionTime, R(150, 1))
                             THEN Hit(15, "reactionTime.baseline")
                             ELSE Miss
            c2   == IF data.movementEntropy # Undef
                       /\ RLt(data.movementEntropy, AUTOMATION_MOVEMENT)
                    THEN Hit(20, "movementEntropy") ELSE Miss
            c3   == IF data.preFiringRate # Undef
                       /\ Gt(data.preFiringRate, R(WALLHACK_PREFIRE_RATE, 1))
                    THEN Hit(30, "preFiringRate") ELSE Miss
            c4   == IF data.wallTrackEvents # Undef
                       /\ Gt(data.wallTrackEvents, R(WALL_TRACK_THRESHOLD, 1))
                    THEN Hit(35, "wallTrackEvents") ELSE Miss
            c5   == IF data.spawnPrediction # Undef
                       /\ Gt(data.spawnPrediction, R(ESP_SPAWN_PREDICTION, 1))
                    THEN Hit(25, "spawnPrediction") ELSE Miss
            c6   == IF data.cameraBehavior # Undef
                       /\ Gt(data.cameraBehavior, CHEAT_CAMERA_PATTERN)
                    THEN Hit(20, "cameraBehavior") ELSE Miss
        IN  Conclude(s1, event, config, "BehavioralAnalysis",
                     <<c1, c2, c3, c4, c5, c6>>, "behavior.reactionTime",
                     CheatTypes(70, "wallhack_esp", "suspicious_behavior"))

----------------------------------------------------------------------------
(* sentinel-core.ts: the dispatch.  A call of processTelemetry is a frame   *)
(* [event, config, status, idx, results, invoked, caught, notified]:        *)
(* status is "running", "awaiting" (suspended in the await of the observer  *)
(* invoked for module idx), "resolved" (it returned results) or "rejected"; *)
(* invoked lists the modules whose handler was called, caught the modules   *)
(* for which the catch clause ran, notified the observer invocations.       *)
(* obsThrows says whether the observer, when invoked by this call, throws   *)
(* synchronously; faults is a set of registry positions whose handler       *)
(* raises on entry (empty in the program as shipped).                       *)

\* sentinel-core.ts, MODULES: the registry's names, in order
ModuleNames ==
    <<"AimAnalysis", "InputAnalysis", "PacketAnalysis", "StatisticalAnalysis",
      "BehavioralAnalysis">>

\* MODULES[i].handler(event, config)
Handler(i, store, event, config) ==
    CASE i = 1 -> analyzeAim(store, event, config)
      [] i = 2 -> analyzeInput(store, event, config)
      [] i = 3 -> analyzePackets(store, event, config)
      [] i = 4 -> analyzeStats(store, event, config)
      [] i = 5 -> analyzeBehavior(store, event, config)

\* mutant: the error leaves the loop and rejects the call
CaughtRethrown(frame, name) == [frame EXCEPT !.status = "rejected"]

\* the catch clause: the error is logged and the loop goes on
Caught(frame, name) == [frame EXCEPT !.caught = Append(@, name)]

\* the for loop from module i on, until the loop ends or the call suspends in
\* the await of the observer
RECURSIVE RunModules(_, _, _)

\* mutant: an error thrown by the observer rejects the call
AwaitObserverPropagates(frame, store, i) ==
    IF frame.obsThrows
    THEN [frame |-> [frame EXCEPT !.status = "rejected"], store |-> store]
    ELSE [frame |-> [frame EXCEPT !.status = "awaiting", !.idx = i],
          store |-> store]

\* await detectionCallback(result, event): the observer throws at once and the
\* catch clause runs, or the call suspends until the observer's promise settles
AwaitObserver(frame, store, i) ==
    IF frame.obsThrows
    THEN RunModules(Caught(frame, ModuleNames[i]), store, i + 1)
    ELSE [frame |-> [frame EXCEPT !.status = "awaiting", !.idx = i],
          store |-> store]

\* the observer is invoked with (result, event); recorded is the player's
\* detection log at that moment
Notify(frame, out, i) ==
    [frame EXCEPT !.notified =
        Append(@, [observer |-> detectionCallback,
                   result |-> out.result,
                   event |-> frame.event,
                   module |-> ModuleNames[i],
                   recorded |-> out.store[frame.event.playerId].recentDetections])]

\* mutant: the observer is invoked but not awaited
DeliverNoAwait(frame, out, i) ==
    IF detectionCallback = Null THEN RunModules(frame, out.store, i + 1)
    ELSE RunModules(Notify(frame, out, i), out.store, i + 1)

\* results.push(result), then the observer if one is registered
Deliver(frame, out, i) ==
    IF detectionCallback = Null THEN RunModules(frame, out.store, i + 1)
    ELSE AwaitObserver(Notify(frame, out, i), out.store, i)

\* the body of the try block for module i, given what its handler did
Dispatch(frame, out, i) ==
    IF out.kind = "threw"
    THEN RunModules(Caught(frame, ModuleNames[i]), out.store, i + 1)
    ELSE IF out.kind = "null" THEN RunModules(frame, out.store, i + 1)
    ELSE Deliver([frame EXCEPT !.results = Append(@, out.result)], out, i)

RunModules(frame, store, i) ==
    IF frame.status # "running" THEN [frame |-> frame, store |-> store]
    ELSE IF i > Len(ModuleNames)
    THEN [frame |-> [frame EXCEPT !.status = "resolved"], store |-> store]
    ELSE Dispatch([frame EXCEPT !.invoked = Append(@, ModuleNames[i])],
                  IF i \in frame.faults THEN Threw(store)
                  ELSE Handler(i, store, frame.event, frame.config),
                  i)

NewFrame(event, config, obsThrows, faults) ==
    [event |-> event, config |-> config, obsThrows |-> obsThrows,
     faults |-> faults, status |-> "running", idx |-> 0, results |-> << >>,
     invoked |-> << >>, caught |-> << >>, notified |-> << >>]

getPipelineState == pipelineToken

\* mutant: no readiness gate
processTelemetryNoGate(store, event, config, obsThrows, faults) ==
    RunModules(NewFrame(event, config, obsThrows, faults), store, 1)

\* processTelemetry(event, config), up to its return or its first suspension
processTelemetry(store, event, config, obsThrows, faults) ==
    IF getPipelineState % 2 # 1
    THEN [frame |-> [NewFrame(event, config, obsThrows, faults)
                        EXCEPT !.status = "resolved"],
          store |-> store]
    ELSE RunModules(NewFrame(event, config, obsThrows, faults), store, 1)

\* mutant: after the await the loop runs the same module again
resumeTelemetryRerun(store, frame, rejected) ==
    LET f0 == [frame EXCEPT !.status = "running"]
        f1 == IF rejected THEN Caught(f0, ModuleNames[frame.idx]) ELSE f0
    IN  RunModules(f1, store, frame.idx)

\* mutant: the continuation after the await is dropped
resumeTelemetryLost(store, frame, rejected) == [frame |-> frame, store |-> store]

\* processTelemetry after the observer's promise settled
resumeTelemetry(store, frame, rejected) ==
    LET f0 == [frame EXCEPT !.status = "running"]
        f1 == IF rejected THEN Caught(f0, ModuleNames[frame.idx]) ELSE f0
    IN  RunModules(f1, store, frame.idx + 1)

----------------------------------------------------------------------------
(* Bounds and input domains *)

MaxPushes == 5      \* pushSample calls per window
MaxCap == 3         \* largest small window capacity drawn besides the default

Players == {"p1", "p2"}

\* a configuration that differs from the default in the window capacity, the
\* minimum sample count and the deviation threshold
Cfg(cap, minSamples, threshold) ==
    [DEFAULT_CONFIG EXCEPT !.baselineSamples = cap,
                           !.minSamplesForBaseline = minSamples,
                           !.deviationThreshold = threshold]

\* window capacities c >= 1
WindowConfigs == {Cfg(c, 5, R(5, 2)) : c \in 1..MaxCap} \cup {DEFAULT_CONFIG}

SampleValues == {R(0, 1), R(1, 1), R(2, 1), R(-3, 2)}

\* configurations deviatesFromBaseline is called with
EvalConfigs == {DEFAULT_CONFIG, Cfg(50, 1, R(1, 1))}

DevSamples == {R(0, 1), R(1, 1), R(2, 1)}

\* values deviatesFromBaseline is called with: the samples, each sample
\* plus 0.01, and 3.5
EvalValues ==
    DevSamples \cup {RAdd(v, R(1, 100)) : v \in DevSamples} \cup {R(7, 2)}

MaxRecords == 4     \* recordDetection calls per player
MaxTicks == 2       \* clock readings after the first

\* the clock readings, half a default correlation window apart
Clock == {k * 30000 : k \in 0..MaxTicks}

Confidences == {R(55, 100)}

MaxCalls == 2       \* processTelemetry calls

Observers == {"f", "g"}

AimNone ==
    [snapAngle |-> Undef, trackingSmoothness |-> Undef, headshotPct |-> Undef,
     timeToTarget |-> Undef, aimLockDuration |-> Undef, targetSwitchSpeed |-> Undef]

InputNone ==
    [inputEntropy |-> Undef, timingVariance |-> Undef, recoilPattern |-> Undef,
     microAdjustments |-> Undef, inputFrequency |-> Undef,
     patternRepetition |-> Undef]

PacketNone ==
    [packetRate |-> Undef, burstCount |-> Undef, avgPacketSize |-> Undef,
     outOfOrder |-> Undef, duplicateRate |-> Undef, suspiciousPayloads |-> Undef]

StatsNone ==
    [kdRatio |-> Undef, winRate |-> Undef, accuracyZScore |-> Undef,
     headshotZScore |-> Undef, spreeFrequency |-> Undef, deathlessStreak |-> Undef]

BehaviorNone ==
    [reactionTime |-> Undef, movementEntropy |-> Undef, preFiringRate |-> Undef,
     wallTrackEvents |-> Undef, spawnPrediction |-> Undef, cameraBehavior |-> Undef]

Event(playerId, eventType, data) ==
    [playerId |-> playerId, eventType |-> eventType, data |-> data]

\* snapAngle 150 and timeToTarget 50: score 55
AimSnap == [AimNone EXCEPT !.snapAngle = R(150, 1), !.timeToTarget = R(50, 1)]

\* the telemetry events drawn
Events ==
    { Event("p1", "aim_data", AimSnap),
      Event("p2", "aim_data", AimSnap),
      Event("p1", "aim_data", [AimNone EXCEPT !.snapAngle = R(70, 1)]),
      Event("p1", "aim_data", Undef),
      Event("p1", "input_data",
            [InputNone EXCEPT !.inputEntropy = R(2, 10),
                              !.timingVariance = R(3, 10)]),
      Event("p1", "packet_data",
            [PacketNone EXCEPT !.packetRate = R(400, 1), !.burstCount = R(20, 1)]),
      Event("p1", "stats_data",
            [StatsNone EXCEPT !.kdRatio = R(9, 1), !.winRate = R(90, 1),
                              !.accuracyZScore = R(4, 1)]),
      Event("p1", "behavior_data",
            [BehaviorNone EXCEPT !.reactionTime = R(90, 1),
                                 !.preFiringRate = R(50, 1),
                                 !.wallTrackEvents = R(6, 1)]) }

\* processTelemetry(event) leaves config undefined and every callee defaults it
PipelineConfigs == {DEFAULT_CONFIG}

----------------------------------------------------------------------------
(* Calls of the functions sentinel-baseline.ts exports *)

HasProfile(p, m) ==
    p \in DOMAIN playerBaselines /\ m \in DOMAIN playerBaselines[p].metrics

PushedOf(p, m) == IF <<p, m>> \in DOMAIN pushed THEN pushed[<<p, m>>] ELSE << >>

CallGetOrCreateBaseline(p, config) ==
    /\ playerBaselines' = getOrCreateBaseline(playerBaselines, p, config)
    /\ ret' = [op |-> "getOrCreateBaseline", playerId |-> p, config |-> config]
    /\ UNCHANGED <<pipelineToken, licensePc, now, pushed, detectionCallback, calls>>

CallGetMetricProfile(p, m, config) ==
    /\ p \in DOMAIN playerBaselines
    /\ playerBaselines' =
           [playerBaselines EXCEPT ![p] = getMetricProfile(@, m, config)]
    /\ ret' = [op |-> "getMetricProfile", playerId |-> p, metric |-> m]
    /\ UNCHANGED <<pipelineToken, licensePc, now, pushed, detectionCallback, calls>>

\* mutant: the windows of a player share one sample array
CallPushSampleAliased(p, m, value) ==
    /\ HasProfile(p, m)
    /\ Len(PushedOf(p, m)) < MaxPushes
    /\ playerBaselines' =
           [playerBaselines EXCEPT ![p].metrics =
               [x \in DOMAIN @ |-> pushSample(@[x], value)]]
    /\ pushed' = [x \in DOMAIN pushed \cup {<<p, m>>} |->
                     IF x = <<p, m>> THEN Append(PushedOf(p, m), value)
                     ELSE pushed[x]]
    /\ ret' = [op |-> "pushSample", playerId |-> p, metric |-> m, value |-> value]
    /\ UNCHANGED <<pipelineToken, licensePc, now, detectionCallback, calls>>

CallPushSample(p, m, value) ==
    /\ HasProfile(p, m)
    /\ Len(PushedOf(p, m)) < MaxPushes
    /\ playerBaselines' =
           [playerBaselines EXCEPT ![p].metrics[m] = pushSample(@, value)]
    /\ pushed' = [x \in DOMAIN pushed \cup {<<p, m>>} |->
                     IF x = <<p, m>> THEN Append(PushedOf(p, m), value)
                     ELSE pushed[x]]
    /\ ret' = [op |-> "pushSample", playerId |-> p, metric |-> m, value |-> value]
    /\ UNCHANGED <<pipelineToken, licensePc, now, detectionCallback, calls>>

CallDeviatesFromBaseline(p, m, value, config) ==
    /\ HasProfile(p, m)
    /\ LET profile == playerBaselines[p].metrics[m]
       IN  /\ ret' = [op |-> "deviatesFromBaseline", playerId |-> p, metric |-> m,
                      value |-> value, config |-> config, profile |-> profile,
                      store |-> playerBaselines, ready |-> Ready,
                      result |-> deviatesFromBaseline(value, profile, config)]
           /\ playerBaselines' =
                  [playerBaselines EXCEPT ![p].metrics[m] =
                       ProfileAfterDeviates(value, profile, config)]
    /\ UNCHANGED <<pipelineToken, licensePc, now, pushed, detectionCallback, calls>>

\* detections recorded for p so far
RecordedOf(p) == IF <<p, "detections">> \in DOMAIN pushed
                 THEN pushed[<<p, "detections">>] ELSE << >>

CallRecordDetection(p, module, confidence) ==
    /\ p \in DOMAIN playerBaselines
    /\ Len(RecordedOf(p)) < MaxRecords
    /\ playerBaselines' =
           [playerBaselines EXCEPT ![p] = recordDetection(@, module, confidence)]
    /\ pushed' = [x \in DOMAIN pushed \cup {<<p, "detections">>} |->
                     IF x = <<p, "detections">>
                     THEN Append(RecordedOf(p), module)
                     ELSE pushed[x]]
    /\ ret' = [op |-> "recordDetection", playerId |-> p, module |-> module,
               confidence |-> confidence]
    /\ UNCHANGED <<pipelineToken, licensePc, now, detectionCallback, calls>>

CallCalculateCrossSignalBonus(p) ==
    /\ p \in DOMAIN playerBaselines
    /\ ret' = [op |-> "calculateCrossSignalBonus", playerId |-> p,
               store |-> playerBaselines,
               result |-> calculateCrossSignalBonus(playerBaselines[p])]
    /\ playerBaselines' =
           [playerBaselines EXCEPT ![p] = BaselineAfterBonus(@)]
    /\ UNCHANGED <<pipelineToken, licensePc, now, pushed, detectionCallback, calls>>

\* calculateRiskEscalation(baseline, baseConfidence) on the baseline of p; the
\* function assigns to nothing
CallCalculateRiskEscalation(p, baseConfidence) ==
    /\ p \in DOMAIN playerBaselines
    /\ ret' = [op |-> "calculateRiskEscalation", playerId |-> p,
               store |-> playerBaselines, baseConfidence |-> baseConfidence,
               result |-> calculateRiskEscalation(playerBaselines[p], baseConfidence)]
    /\ UNCHANGED <<pipelineToken, licensePc, now, playerBaselines, pushed,
                   detectionCallback, calls>>

\* time passes
Tick ==
    /\ \E t \in Clock : t > now /\ now' = t
    /\ UNCHANGED <<pipelineToken, licensePc, playerBaselines, pushed, ret, detectionCallback, calls>>

----------------------------------------------------------------------------
(* sentinel-baseline.ts: _initLicenseSubsystem, which runs at module load up *)
(* to its await of the beacon request                                        *)

\* mutant: the response handler also runs after the catch clause activated
\* the pipeline, and assigns 0x2 instead of or-ing it in
BeaconRespondsAssigns ==
    /\ licensePc \in {"fetching", "done"}
    /\ pipelineToken' = 2
    /\ licensePc' = "done"
    /\ UNCHANGED <<now, playerBaselines, pushed, ret, detectionCallback, calls>>

\* the request resolves with a response: lines 83-88
BeaconResponds ==
    /\ licensePc = "fetching"
    /\ pipelineToken' = 3
    /\ licensePc' = "done"
    /\ UNCHANGED <<now, playerBaselines, pushed, ret, detectionCallback, calls>>

\* mutant: without a response the pipeline is not activated
BeaconFailsStaysGated ==
    /\ licensePc = "fetching"
    /\ pipelineToken' = 0
    /\ licensePc' = "done"
    /\ UNCHANGED <<now, playerBaselines, pushed, ret, detectionCallback, calls>>

\* the request rejects, or the 5000 ms timer aborts it: .catch(() => null),
\* lines 82-85
BeaconFails ==
    /\ licensePc = "fetching"
    /\ pipelineToken' = 1
    /\ licensePc' = "done"
    /\ UNCHANGED <<now, playerBaselines, pushed, ret, detectionCallback, calls>>

\* module load: building or issuing the request throws (line 90), or the
\* request is in flight
InitLicense ==
    \/ pipelineToken = 0 /\ licensePc = "fetching"
    \/ pipelineToken = 1 /\ licensePc = "done"

InitStore ==
    /\ now = 0
    /\ playerBaselines = << >>
    /\ detectionCallback = Null
    /\ calls = << >>
    /\ pushed = << >>
    /\ ret = NoCall

----------------------------------------------------------------------------
(* sentinel-core.ts: onDetection and processTelemetry *)

\* mutant: the slot keeps the observer registered first
OnDetectionKeepsFirst(callback) ==
    /\ detectionCallback' = IF detectionCallback = Null THEN callback
                            ELSE detectionCallback
    /\ ret' = [op |-> "onDetection", callback |-> callback]
    /\ UNCHANGED <<pipelineToken, licensePc, now, playerBaselines, calls, pushed>>

OnDetection(callback) ==
    /\ detectionCallback' = callback
    /\ ret' = [op |-> "onDetection", callback |-> callback]
    /\ UNCHANGED <<pipelineToken, licensePc, now, playerBaselines, calls, pushed>>

\* a call of processTelemetry, run to its return or to its first suspension
ProcessTelemetryWith(event, config, obsThrows, faults) ==
    /\ Len(calls) < MaxCalls
    /\ LET r == processTelemetry(playerBaselines, event, config, obsThrows, faults)
       IN  /\ calls' = Append(calls, r.frame)
           /\ playerBaselines' = r.store
    /\ ret' = [op |-> "processTelemetry", call |-> Len(calls) + 1,
               ready |-> Ready, store |-> playerBaselines,
               observer |-> detectionCallback]
    /\ UNCHANGED <<pipelineToken, licensePc, now, detectionCallback, pushed>>

ProcessTelemetry(event, config, obsThrows) ==
    ProcessTelemetryWith(event, config, obsThrows, {})

\* the promise of the observer a call awaits settles, and the call runs on to
\* its return or to its next suspension
ObserverSettles(c, rejected) ==
    /\ c \in 1..Len(calls)
    /\ calls[c].status = "awaiting"
    /\ LET r == resumeTelemetry(playerBaselines, calls[c], rejected)
       IN  /\ calls' = [calls EXCEPT ![c] = r.frame]
           /\ playerBaselines' = r.store
    /\ ret' = [op |-> "resume", call |-> c, rejected |-> rejected]
    /\ UNCHANGED <<pipelineToken, licensePc, now, detectionCallback, pushed>>

----------------------------------------------------------------------------
(* Spec: the engine as shipped.  The license subsystem initialises, time    *)
(* passes, observers are registered and telemetry is processed.             *)

Init == InitStore /\ InitLicense

Next ==
    \/ BeaconResponds
    \/ BeaconFails
    \/ Tick
    \/ \E callback \in Observers : OnDetection(callback)
    \/ \E event \in Events, config \in PipelineConfigs, obsThrows \in BOOLEAN :
           ProcessTelemetry(event, config, obsThrows)
    \/ \E c \in 1..MaxCalls, rejected \in BOOLEAN : ObserverSettles(c, rejected)

Spec == Init /\ [][Next]_vars

----------------------------------------------------------------------------
(* SpecFaults: the dispatch with a plug-in that raises.  A handler raises   *)
(* as shipped when the payload is absent; besides, one registry position    *)
(* per call may raise on entry.                                             *)

\* the registry position whose handler acts on the event's type
TypeIndex(event) ==
    CASE event.eventType = "aim_data" -> 1
      [] event.eventType = "input_data" -> 2
      [] event.eventType = "packet_data" -> 3
      [] event.eventType = "stats_data" -> 4
      [] event.eventType = "behavior_data" -> 5

\* events of p1 whose own checks score 40 or more: aim (55), packets (55),
\* behavior (95)
FaultEvents ==
    {e \in Events : /\ e.playerId = "p1"
                    /\ e.eventType \in {"aim_data", "packet_data", "behavior_data"}
                    /\ e.data # Undef
                    /\ e.data # [AimNone EXCEPT !.snapAngle = R(70, 1)]}

NextFaults ==
    \/ BeaconFails
    \/ OnDetection("f")
    \/ \E event \in FaultEvents, i \in 1..Len(ModuleNames) :
           ProcessTelemetryWith(event, DEFAULT_CONFIG, FALSE, {i})
    \/ ProcessTelemetry(Event("p1", "aim_data", Undef), DEFAULT_CONFIG, FALSE)
    \/ \E c \in 1..MaxCalls, rejected \in BOOLEAN : ObserverSettles(c, rejected)

SpecFaults == Init /\ [][NextFaults]_vars

----------------------------------------------------------------------------
(* SpecGate: the readiness gate.  While the license subsystem initialises  *)
(* the host fills the store through the exported store functions, and it    *)
(* sends telemetry before and after the engine becomes ready.               *)

GateEvent == Event("p1", "aim_data", AimSnap)

NextGate ==
    \/ BeaconResponds
    \/ BeaconFails
    \/ Tick
    \/ OnDetection("f")
    \/ ~Ready /\ CallGetOrCreateBaseline("p1", DEFAULT_CONFIG)
    \/ ~Ready /\ CallRecordDetection("p1", "InputAnalysis", R(55, 100))
    \/ ProcessTelemetry(GateEvent, DEFAULT_CONFIG, FALSE)
    \/ \E c \in 1..MaxCalls : ObserverSettles(c, FALSE)

\* the request settles: it is answered, it fails, or the 5000 ms timer aborts it
SpecGateLive == Init /\ [][NextGate]_vars /\ WF_vars(BeaconResponds \/ BeaconFails)

SpecGate == Init /\ [][NextGate]_vars

----------------------------------------------------------------------------
(* SpecWindow: one rolling window under pushSample *)

WMetric == "aim.snapAngle"

InitWindow == InitStore /\ pipelineToken = 1 /\ licensePc = "done"

NextWindow ==
    \/ \E config \in WindowConfigs : CallGetOrCreateBaseline("p1", config)
    \/ \E config \in WindowConfigs : CallGetMetricProfile("p1", WMetric, config)
    \/ \E v \in SampleValues : CallPushSample("p1", WMetric, v)

SpecWindow == InitWindow /\ [][NextWindow]_vars

----------------------------------------------------------------------------
(* SpecDeviation: a window under pushSample and deviatesFromBaseline, while *)
(* the license subsystem initialises                                        *)

InitDeviation == InitStore /\ InitLicense

NextDeviation ==
    \/ BeaconResponds
    \/ BeaconFails
    \/ CallGetOrCreateBaseline("p1", DEFAULT_CONFIG)
    \/ CallGetMetricProfile("p1", WMetric, DEFAULT_CONFIG)
    \/ \E v \in DevSamples : CallPushSample("p1", WMetric, v)
    \/ \E v \in EvalValues, config \in EvalConfigs :
           CallDeviatesFromBaseline("p1", WMetric, v, config)

SpecDeviation == InitDeviation /\ [][NextDeviation]_vars

----------------------------------------------------------------------------
(* SpecLog: one player's detection log under recordDetection, the pruning of *)
(* getOrCreateBaseline and calculateCrossSignalBonus, as time passes         *)

InitLog == InitStore /\ pipelineToken = 1 /\ licensePc = "done"

NextLog ==
    \/ Tick
    \/ CallGetOrCreateBaseline("p1", DEFAULT_CONFIG)
    \/ \E i \in 1..Len(ModuleNames), c \in Confidences :
           CallRecordDetection("p1", ModuleNames[i], c)
    \/ CallCalculateCrossSignalBonus("p1")

SpecLog == InitLog /\ [][NextLog]_vars

----------------------------------------------------------------------------
(* SpecAction: resolveAction called by the host while the license subsystem *)
(* initialises                                                              *)

ActionCfg(autoban, shadowban, flag) ==
    [DEFAULT_CONFIG EXCEPT !.autobanConfidence = autoban,
                           !.shadowbanConfidence = shadowban,
                           !.flagConfidence = flag]

\* the defaults, equal thresholds, stricter thresholds, and thresholds out of
\* order
ActionConfigs ==
    {DEFAULT_CONFIG,
     ActionCfg(R(1, 2), R(1, 2), R(1, 2)),
     ActionCfg(R(9, 10), R(7, 10), R(7, 10)),
     ActionCfg(R(4, 10), R(65, 100), R(85, 100))}

ActionConfidences ==
    {R(k, 100) : k \in {0, 10, 39, 40, 50, 64, 65, 70, 84, 85, 90, 99, 100}}

CallResolveAction(confidence, config) ==
    /\ ret' = [op |-> "resolveAction", confidence |-> confidence,
               config |-> config, ready |-> Ready,
               result |-> resolveAction(confidence, config)]
    /\ UNCHANGED <<pipelineToken, licensePc, now, playerBaselines, pushed,
                   detectionCallback, calls>>

InitAction == InitStore /\ InitLicense

NextAction ==
    \/ BeaconResponds
    \/ BeaconFails
    \/ \E confidence \in ActionConfidences, config \in ActionConfigs :
           CallResolveAction(confidence, config)

SpecAction == InitAction /\ [][NextAction]_vars

----------------------------------------------------------------------------
(* SpecPlugins: the five plug-ins behind processTelemetry, with no observer, *)
(* for two players and several configurations, as time passes               *)

\* the defaults, and thresholds out of order
PluginConfigs ==
    {DEFAULT_CONFIG, ActionCfg(R(4, 10), R(65, 100), R(85, 100))}

NextPlugins ==
    \/ BeaconResponds
    \/ BeaconFails
    \/ Tick
    \/ \E event \in Events, config \in PluginConfigs :
           ProcessTelemetry(event, config, FALSE)

SpecPlugins == Init /\ [][NextPlugins]_vars

----------------------------------------------------------------------------
(* SpecObserver: observers are registered and replaced while telemetry is   *)
(* processed; an observer throws at once, or returns a promise that settles *)
(* later                                                                    *)

\* events of p1 for the first and the last plug-in of the registry, with and
\* without a result
ObserverEvents ==
    {e \in Events : /\ e.playerId = "p1"
                    /\ e.eventType \in {"aim_data", "behavior_data"}
                    /\ e.data # Undef}

NextObserver ==
    \/ BeaconResponds
    \/ BeaconFails
    \/ \E callback \in Observers : OnDetection(callback)
    \/ \E event \in ObserverEvents, obsThrows \in BOOLEAN :
           ProcessTelemetry(event, DEFAULT_CONFIG, obsThrows)
    \/ \E c \in 1..MaxCalls, rejected \in BOOLEAN : ObserverSettles(c, rejected)

SpecObserver == Init /\ [][NextObserver]_vars

----------------------------------------------------------------------------
(* SpecStore: the baselines and metric windows of two players under the     *)
(* store functions                                                          *)

\* two windows of p1 and one of p2
StoreWindows ==
    {<<"p1", WMetric>>, <<"p1", "aim.trackingSmoothness">>, <<"p2", WMetric>>}

RECURSIVE TotalPushed(_)
\* the number of samples pushed to the windows in keys
TotalPushed(keys) ==
    IF keys = {} THEN 0
    ELSE LET x == CHOOSE y \in keys : TRUE
         IN  Len(PushedOf(x[1], x[2])) + TotalPushed(keys \ {x})

NextStore ==
    \/ \E p \in Players : CallGetOrCreateBaseline(p, DEFAULT_CONFIG)
    \/ \E x \in StoreWindows : CallGetMetricProfile(x[1], x[2], DEFAULT_CONFIG)
    \/ \E x \in StoreWindows, v \in {R(1, 1), R(2, 1)} :
           /\ TotalPushed(StoreWindows) < MaxPushes
           /\ CallPushSample(x[1], x[2], v)
    \/ CallRecordDetection("p1", "AimAnalysis", R(55, 100))

SpecStore == InitWindow /\ [][NextStore]_vars

----------------------------------------------------------------------------
(* SpecPrune: one player's detection log and a window under the store       *)
(* functions as time passes, with correlation windows of 60 s and 30 s      *)

PruneConfigs ==
    {DEFAULT_CONFIG, [DEFAULT_CONFIG EXCEPT !.correlationWindowMs = 30000]}

NextPrune ==
    \/ Tick
    \/ \E config \in PruneConfigs : CallGetOrCreateBaseline("p1", config)
    \/ \E module \in {"AimAnalysis", "InputAnalysis"} :
           CallRecordDetection("p1", module, R(55, 100))
    \/ CallCalculateCrossSignalBonus("p1")
    \/ CallGetMetricProfile("p1", WMetric, DEFAULT_CONFIG)
    \/ CallPushSample("p1", WMetric, R(1, 1))

SpecPrune == InitLog /\ [][NextPrune]_vars

----------------------------------------------------------------------------
(* SpecCap: one player's detection log near its cap.  It starts from the    *)
(* store after getOrCreateBaseline("p1") and MaxDetections - 2 calls of     *)
(* recordDetection at time 0.                                               *)

\* the baseline after k calls of recordDetection(baseline, module,
\* confidence) on a new baseline of playerId, k <= MaxDetections
RecordedTimes(playerId, module, confidence, k) ==
    [NewBaseline(playerId) EXCEPT !.recentDetections =
        [i \in 1..k |-> [module |-> module, confidence |-> confidence,
                         timestamp |-> now]]]

InitCap ==
    /\ now = 0
    /\ pipelineToken = 1 /\ licensePc = "done"
    /\ playerBaselines =
           [p \in {"p1"} |-> RecordedTimes("p1", "AimAnalysis", R(55, 100),
                                           MaxDetections - 2)]
    /\ detectionCallback = Null
    /\ calls = << >>
    /\ pushed = << >>
    /\ ret = NoCall

NextCap ==
    \/ Tick
    \/ CallGetOrCreateBaseline("p1", DEFAULT_CONFIG)
    \/ \E module \in {"AimAnalysis", "InputAnalysis"} :
           CallRecordDetection("p1", module, R(55, 100))

SpecCap == InitCap /\ [][NextCap]_vars

----------------------------------------------------------------------------
(* SpecInFlight: processTelemetry calls for one player are started without  *)
(* awaiting each other while the observer suspends, with windows of         *)
(* capacity 1, 2, 3 and 50                                                  *)

\* aim events of p1 with different snap angles: scores 55, 75 and 0
InFlightEvents ==
    { Event("p1", "aim_data", AimSnap),
      Event("p1", "aim_data",
            [AimNone EXCEPT !.snapAngle = R(130, 1), !.headshotPct = R(70, 1),
                            !.timeToTarget = R(50, 1)]),
      Event("p1", "aim_data", [AimNone EXCEPT !.snapAngle = R(70, 1)]) }

NextInFlight ==
    \/ OnDetection("f")
    \/ \E event \in InFlightEvents, config \in WindowConfigs :
           ProcessTelemetry(event, config, FALSE)
    \/ \E c \in 1..MaxCalls, rejected \in BOOLEAN : ObserverSettles(c, rejected)

SpecInFlight == InitLog /\ [][NextInFlight]_vars

----------------------------------------------------------------------------
(* SpecReplay: telemetry of one player is processed as time passes, by an   *)
(* engine that has already processed an aim event and an input event of the *)
(* player at time 0, each with a result                                     *)

RECURSIVE StoreAfter(_, _)
\* the store after processTelemetry was called on store for each of the
\* frames' events in turn, with no time passing
StoreAfter(store, frames) ==
    IF frames = << >> THEN store
    ELSE LET f == Head(frames)
         IN  StoreAfter(processTelemetry(store, f.event, f.config, f.obsThrows,
                                         f.faults).store,
                        Tail(frames))

\* the calls made before the first state: AimAnalysis 55, InputAnalysis 55
ReplayHistory ==
    << NewFrame(Event("p1", "aim_data", AimSnap), DEFAULT_CONFIG, FALSE, {}),
       NewFrame(Event("p1", "input_data",
                      [InputNone EXCEPT !.inputEntropy = R(2, 10),
                                        !.timingVariance = R(3, 10)]),
                DEFAULT_CONFIG, FALSE, {}) >>

InitReplay ==
    /\ now = 0
    /\ pipelineToken = 1 /\ licensePc = "done"
    /\ detectionCallback = Null
    /\ playerBaselines = StoreAfter(<< >>, ReplayHistory)
    /\ calls = << >>
    /\ pushed = << >>
    /\ ret = NoCall

NextReplay ==
    \/ Tick
    \/ \E event \in {e \in Events : e.playerId = "p1" /\ e.data # Undef},
          config \in PruneConfigs :
           ProcessTelemetry(event, config, FALSE)

SpecReplay == InitReplay /\ [][NextReplay]_vars

----------------------------------------------------------------------------
(* SpecTracked: the baseline-tracked metrics of one player.  The engine has *)
(* already processed 8 or 9 rounds of five events with ordinary values, one *)
(* per plug-in, none with a result; then events with ordinary and with      *)
(* outlying values arrive, under the default configuration and under        *)
(* minSamplesForBaseline = 10.                                              *)

\* one event per plug-in with ordinary values of the tracked metrics
BaseEvents ==
    << Event("p1", "aim_data",
             [AimNone EXCEPT !.snapAngle = R(100, 1),
                             !.trackingSmoothness = R(5, 10)]),
       Event("p1", "input_data", [InputNone EXCEPT !.inputEntropy = R(9, 10)]),
       Event("p1", "packet_data", [PacketNone EXCEPT !.packetRate = R(100, 1)]),
       Event("p1", "stats_data", [StatsNone EXCEPT !.kdRatio = R(1, 1)]),
       Event("p1", "behavior_data",
             [BehaviorNone EXCEPT !.reactionTime = R(130, 1)]) >>

\* one event per plug-in whose tracked values lie away from the ordinary
\* ones but within the absolute limits, and whose other checks score 40 or
\* more; and a packet event whose rate is 0.002 away from the ordinary one,
\* which leaves a window of nine or more samples with a standard deviation
\* below Epsilon and the rate more than Epsilon away from its mean
ProbeEvents ==
    { Event("p1", "aim_data",
            [AimNone EXCEPT !.snapAngle = R(110, 1),
                            !.trackingSmoothness = R(9, 10),
                            !.headshotPct = R(70, 1),
                            !.timeToTarget = R(50, 1)]),
      Event("p1", "input_data",
            [InputNone EXCEPT !.inputEntropy = R(4, 10),
                              !.timingVariance = R(3, 10),
                              !.recoilPattern = R(95, 100)]),
      Event("p1", "packet_data",
            [PacketNone EXCEPT !.packetRate = R(101, 1),
                               !.burstCount = R(20, 1),
                               !.outOfOrder = R(11, 1)]),
      Event("p1", "packet_data",
            [PacketNone EXCEPT !.packetRate = R(50001, 500),
                               !.burstCount = R(20, 1),
                               !.outOfOrder = R(11, 1)]),
      Event("p1", "stats_data",
            [StatsNone EXCEPT !.kdRatio = R(5, 1), !.winRate = R(90, 1),
                              !.accuracyZScore = R(4, 1)]),
      Event("p1", "behavior_data",
            [BehaviorNone EXCEPT !.reactionTime = R(120, 1),
                                 !.preFiringRate = R(50, 1),
                                 !.wallTrackEvents = R(6, 1)]) }

\* the store after h rounds of the events of BaseEvents: each tracked metric's
\* window holds h copies of its ordinary value, and the log is empty
Prefilled(h) ==
    LET W(value) == [values |-> [i \in 1..h |-> value],
                     maxSamples |-> DEFAULT_CONFIG.baselineSamples,
                     mean |-> value, stddev |-> Sqrt(Zero)]
    IN  [p \in {"p1"} |->
            [NewBaseline("p1") EXCEPT !.metrics =
                [m \in {"aim.snapAngle", "aim.trackingSmoothness", "input.entropy",
                        "packet.rate", "stats.kdRatio", "behavior.reactionTime"} |->
                    CASE m = "aim.snapAngle" -> W(BaseEvents[1].data.snapAngle)
                      [] m = "aim.trackingSmoothness" ->
                             W(BaseEvents[1].data.trackingSmoothness)
                      [] m = "input.entropy" -> W(BaseEvents[2].data.inputEntropy)
                      [] m = "packet.rate" -> W(BaseEvents[3].data.packetRate)
                      [] m = "stats.kdRatio" -> W(BaseEvents[4].data.kdRatio)
                      [] m = "behavior.reactionTime" ->
                             W(BaseEvents[5].data.reactionTime)]]]

InitTracked ==
    /\ now = 0
    /\ pipelineToken = 1 /\ licensePc = "done"
    /\ detectionCallback = Null
    /\ \E h \in {7, 8, 9} : playerBaselines = Prefilled(h)
    /\ calls = << >>
    /\ pushed = << >>
    /\ ret = NoCall

NextTracked ==
    \E event \in Range(BaseEvents) \cup ProbeEvents,
       config \in {DEFAULT_CONFIG, Cfg(50, 10, R(5, 2))} :
        ProcessTelemetry(event, config, FALSE)

SpecTracked == InitTracked /\ [][NextTracked]_vars

----------------------------------------------------------------------------
(* SpecPositions: a ready engine with a registered observer processes       *)
(* events for every plug-in of the registry; the observer throws at once,   *)
(* or returns a promise that is fulfilled or rejected later                 *)

NextPositions ==
    \/ OnDetection("f")
    \/ \E event \in {e \in Events : e.playerId = "p1" /\ e.data # Undef},
          obsThrows \in BOOLEAN :
           ProcessTelemetry(event, DEFAULT_CONFIG, obsThrows)
    \/ \E c \in 1..MaxCalls, rejected \in BOOLEAN : ObserverSettles(c, rejected)

\* every observer invocation eventually completes: the promise a suspended
\* call awaits is eventually fulfilled or rejected
SpecPositionsLive ==
    /\ InitLog
    /\ [][NextPositions]_vars
    /\ \A c \in 1..MaxCalls :
           WF_vars(\E rejected \in BOOLEAN : ObserverSettles(c, rejected))

SpecPositions == InitLog /\ [][NextPositions]_vars

----------------------------------------------------------------------------
(* SpecEscalation: calculateRiskEscalation called by the host on one        *)
(* player's baseline while detections are recorded; the log starts with two *)
(* entries                                                                  *)

InitEscalation ==
    /\ now = 0
    /\ pipelineToken = 1 /\ licensePc = "done"
    /\ playerBaselines =
           [p \in {"p1"} |-> RecordedTimes("p1", "AimAnalysis", R(55, 100), 2)]
    /\ detectionCallback = Null
    /\ calls = << >>
    /\ pushed = << >>
    /\ ret = NoCall

NextEscalation ==
    \/ \E module \in {"AimAnalysis", "InputAnalysis"} :
           CallRecordDetection("p1", module, R(55, 100))
    \/ \E baseConfidence \in {R(-1, 1), R(0, 1), R(55, 100), R(99, 100),
                              R(3, 1), R(5, 1)} :
           CallCalculateRiskEscalation("p1", baseConfidence)

SpecEscalation == InitEscalation /\ [][NextEscalation]_vars

----------------------------------------------------------------------------
(* SpecScores: events of one player whose own checks score 0, 25, 40, 55,   *)
(* 75 and 135, for a player with up to three earlier detections of          *)
(* different plug-ins, as time passes                                       *)

ScoreEvents ==
    { Event("p1", "aim_data", [AimNone EXCEPT !.snapAngle = R(10, 1),
                                              !.headshotPct = R(10, 1)]),
      Event("p1", "input_data", [InputNone EXCEPT !.recoilPattern = R(1, 10)]),
      Event("p1", "packet_data", [PacketNone EXCEPT !.burstCount = R(1, 1)]),
      Event("p1", "stats_data", [StatsNone EXCEPT !.winRate = R(10, 1)]),
      Event("p1", "behavior_data", [BehaviorNone EXCEPT !.preFiringRate = R(1, 100)]),
      Event("p1", "aim_data", [AimNone EXCEPT !.timeToTarget = R(50, 1)]),
      Event("p1", "aim_data", [AimNone EXCEPT !.trackingSmoothness = R(99, 100),
                                              !.aimLockDuration = R(3000, 1)]),
      Event("p1", "aim_data", AimSnap),
      Event("p1", "aim_data", [AimNone EXCEPT !.snapAngle = R(130, 1),
                                              !.headshotPct = R(70, 1),
                                              !.timeToTarget = R(50, 1)]),
      Event("p1", "aim_data", [snapAngle |-> R(130, 1),
                               trackingSmoothness |-> R(99, 100),
                               headshotPct |-> R(70, 1),
                               timeToTarget |-> R(50, 1),
                               aimLockDuration |-> R(3000, 1),
                               targetSwitchSpeed |-> R(10, 1)]),
      Event("p1", "behavior_data", [BehaviorNone EXCEPT !.wallTrackEvents = R(6, 1),
                                                        !.preFiringRate = R(50, 1)]) }

\* the store after up to three events that each give a detection, of the
\* plug-ins AimAnalysis, InputAnalysis and PacketAnalysis in this order
InitScores ==
    /\ now = 0
    /\ pipelineToken = 1 /\ licensePc = "done"
    /\ detectionCallback = Null
    /\ \E h \in 0..3 :
          playerBaselines =
              StoreAfter(<< >>,
                  SubSeq(ReplayHistory
                             \o << NewFrame(Event("p1", "packet_data",
                                                  [PacketNone EXCEPT
                                                      !.packetRate = R(400, 1),
                                                      !.burstCount = R(20, 1)]),
                                            DEFAULT_CONFIG, FALSE, {}) >>,
                         1, h))
    /\ calls = << >>
    /\ pushed = << >>
    /\ ret = NoCall

NextScores ==
    \/ Tick
    \/ \E event \in ScoreEvents : ProcessTelemetry(event, DEFAULT_CONFIG, FALSE)

SpecScores == InitScores /\ [][NextScores]_vars

----------------------------------------------------------------------------
(* Claims about the dispatch *)

Frames == {calls[c] : c \in 1..Len(calls)}

\* the frame passed the readiness gate
Ran(frame) == frame.invoked # << >>

FaultNames(frame) == {ModuleNames[i] : i \in frame.faults}

\* C1: an error a plug-in raises is caught: the remaining plug-ins are still
\* invoked, a later plug-in that matches the event still contributes its
\* result, and the call never rejects but resolves with the results of the
\* plug-ins that did not fail.
C1_FailureIsolation ==
    \A frame \in Frames :
        /\ frame.status # "rejected"
        /\ (frame.status = "resolved" /\ Ran(frame)) => frame.invoked = ModuleNames
        /\ frame.status = "awaiting" =>
              frame.invoked = SubSeq(ModuleNames, 1, frame.idx)
        /\ \A i \in frame.faults :
              i <= Len(frame.invoked) =>
                  \E k \in 1..Len(frame.caught) : frame.caught[k] = ModuleNames[i]
        /\ \A k \in 1..Len(frame.results) :
              frame.results[k].module \notin FaultNames(frame)
        /\ (frame.event \in FaultEvents /\ Len(frame.invoked) >= TypeIndex(frame.event)) =>
              IF TypeIndex(frame.event) \in frame.faults
              THEN frame.results = << >>
              ELSE /\ Len(frame.results) = 1
                   /\ frame.results[1].module = ModuleNames[TypeIndex(frame.event)]

\* the first plug-in raised, a later one matched the event and its result is
\* in what the call resolved with
C1_Witness ==
    \E frame \in Frames :
        /\ frame.status = "resolved"
        /\ frame.faults = {1}
        /\ frame.caught = <<"AimAnalysis">>
        /\ frame.invoked = ModuleNames
        /\ Len(frame.results) = 1
        /\ frame.results[1].module = "BehavioralAnalysis"

IsCall == ret.op = "processTelemetry"

\* C2: a processTelemetry call made while the engine is not ready returns the
\* empty sequence, invokes no plug-in and no observer, and leaves the baseline
\* store as it was.
C2_NotReadyIsNoOp ==
    (IsCall /\ ~ret.ready) =>
        /\ calls[ret.call].status = "resolved"
        /\ calls[ret.call].results = << >>
        /\ calls[ret.call].invoked = << >>
        /\ calls[ret.call].notified = << >>
        /\ playerBaselines = ret.store

\* not ready, an observer registered, an event that scores 55 for a player
\* whose log holds a detection older than the correlation window
C2_Witness ==
    /\ IsCall /\ ~ret.ready /\ ret.observer # Null
    /\ calls[ret.call].event = GateEvent
    /\ "p1" \in DOMAIN ret.store
    /\ Len(ret.store["p1"].recentDetections) >= 1
    /\ ret.store["p1"].recentDetections[1].timestamp
           <= now - DEFAULT_CONFIG.correlationWindowMs
    /\ playerBaselines = ret.store

----------------------------------------------------------------------------
(* Claims about the rolling window *)

\* all windows of the store, as <<player, metric>> pairs
Windows ==
    {x \in Players \X {WMetric} : HasProfile(x[1], x[2])}

WindowOf(x) == playerBaselines[x[1]].metrics[x[2]]

Min(a, b) == IF a < b THEN a ELSE b

\* the last k elements of h
LastK(h, k) == SubSeq(h, Len(h) - k + 1, Len(h))

\* C3: after n pushes on a window of capacity c >= 1 the window holds
\* exactly the last min(n, c) pushed values, in push order.
C3_WindowHoldsLastPushed ==
    \A x \in Windows :
        LET w == WindowOf(x)
            h == PushedOf(x[1], x[2])
        IN  /\ Len(w.values) <= w.maxSamples
            /\ w.values = LastK(h, Min(Len(h), w.maxSamples))

\* a window of capacity >= 2 that has evicted at least two values
C3_Witness ==
    \E x \in Windows :
        /\ WindowOf(x).maxSamples >= 2
        /\ Len(PushedOf(x[1], x[2])) >= WindowOf(x).maxSamples + 2
        /\ Len(WindowOf(x).values) = WindowOf(x).maxSamples
        /\ PushedOf(x[1], x[2])[1] # PushedOf(x[1], x[2])[Len(PushedOf(x[1], x[2]))]

RECURSIVE SumFrom(_, _)
SumFrom(values, i) ==
    IF i > Len(values) THEN Zero ELSE RAdd(values[i], SumFrom(values, i + 1))

RECURSIVE SqDevFrom(_, _, _)
SqDevFrom(values, m, i) ==
    IF i > Len(values) THEN Zero
    ELSE RAdd(RMul(RSub(values[i], m), RSub(values[i], m)),
              SqDevFrom(values, m, i + 1))

\* C4: after every pushSample the stored mean is the arithmetic mean of the
\* current values and, from 3 values on, stddev^2 * (n - 1) is the sum of the
\* squared differences of the current values from that mean.
C4_StatsMatchCurrentValues ==
    \A x \in Windows :
        LET w == WindowOf(x)
            n == Len(w.values)
        IN  n >= 1 =>
              /\ RMul(w.mean, R(n, 1)) = SumFrom(w.values, 1)
              /\ n >= 3 =>
                    RMul(w.stddev.sq, R(n - 1, 1)) = SqDevFrom(w.values, w.mean, 1)

\* a full window of 3 values with a nonzero stddev, after an eviction of a
\* value that differs from every current one
C4_Witness ==
    \E x \in Windows :
        LET w == WindowOf(x)
            h == PushedOf(x[1], x[2])
        IN  /\ Len(w.values) = 3 /\ w.maxSamples = 3 /\ Len(h) > 3
            /\ \A i \in 1..3 : w.values[i] # h[1]
            /\ w.stddev # Sqrt(Zero)

\* C5: a window with fewer than 3 samples has stddev 0, and an empty window
\* has mean 0.
C5_StddevSentinel ==
    \A x \in Windows :
        LET w == WindowOf(x)
        IN  /\ Len(w.values) < 3 => w.stddev = Sqrt(Zero)
            /\ Len(w.values) = 0 => w.mean = Zero

\* a window of two different values, with stddev 0
C5_Witness ==
    \E x \in Windows :
        LET w == WindowOf(x)
        IN  Len(w.values) = 2 /\ w.values[1] # w.values[2] /\ w.stddev = Sqrt(Zero)

----------------------------------------------------------------------------
(* Claims about deviatesFromBaseline *)

IsDev == ret.op = "deviatesFromBaseline"

NoDeviation == [deviates |-> FALSE, zScore |-> ZeroRoot]

\* C6: with fewer than config.minSamplesForBaseline samples in the window,
\* deviatesFromBaseline returns {deviates: false, zScore: 0} for every value.
C6_TooFewSamples ==
    (IsDev /\ Len(ret.profile.values) < ret.config.minSamplesForBaseline)
        => ret.result = NoDeviation

\* the engine is ready, the window holds 4 unequal samples (stddev > 0),
\* fewer than the 5 required, and the value is far from the mean
C6_Witness ==
    /\ IsDev /\ ret.ready
    /\ Len(ret.profile.values) = 4
    /\ ret.config.minSamplesForBaseline = 5
    /\ ~RootLt(ret.profile.stddev, Epsilon)
    /\ RLt(R(2, 1), RAbs(RSub(ret.value, ret.profile.mean)))
    /\ ret.result = NoDeviation

\* stddev < epsilon, stated on the variance
Degenerate(profile) == RLt(profile.stddev.sq, R(1, 1000000))

\* C7: ready and at least minSamplesForBaseline samples: with stddev below
\* epsilon the result is zScore 0 and deviates = |value - mean| > epsilon;
\* otherwise zScore = (value - mean) / stddev and deviates = |zScore| >
\* deviationThreshold, strictly.
C7_DeviationResult ==
    (IsDev /\ ret.ready
           /\ Len(ret.profile.values) >= ret.config.minSamplesForBaseline) =>
        LET diff == RSub(ret.value, ret.profile.mean)
            var  == ret.profile.stddev.sq
            t    == ret.config.deviationThreshold
        IN  IF Degenerate(ret.profile)
            THEN /\ ret.result.zScore = ZeroRoot
                 /\ ret.result.deviates <=> RLt(R(1, 1000), RAbs(diff))
            ELSE /\ ret.result.zScore.sgn = RSign(diff)
                 /\ RMul(ret.result.zScore.sq, var) = RMul(diff, diff)
                 /\ ret.result.deviates <=>
                        RLt(RMul(RMul(t, t), var), RMul(diff, diff))

\* a z-score exactly at the threshold, which does not deviate
C7_Witness ==
    /\ IsDev /\ ret.ready
    /\ Len(ret.profile.values) >= ret.config.minSamplesForBaseline
    /\ ~Degenerate(ret.profile)
    /\ ret.result.zScore.sgn = 1
    /\ ret.result.zScore.sq = RMul(ret.config.deviationThreshold,
                                   ret.config.deviationThreshold)
    /\ ~ret.result.deviates

\* the window holds the same value, 3 or more times
ConstantWindow(profile) ==
    /\ Len(profile.values) >= 3
    /\ \A i \in 1..Len(profile.values) : profile.values[i] = profile.values[1]

C9_DeviatesLeavesStore ==
    IsDev => /\ playerBaselines = ret.store
             /\ WindowOf(<<ret.playerId, ret.metric>>) = ret.profile

\* an evaluation on the z-score path that found a deviation
C9_Witness ==
    /\ IsDev /\ ret.ready /\ ~Degenerate(ret.profile)
    /\ Len(ret.profile.values) >= ret.config.minSamplesForBaseline
    /\ ret.result.deviates
    /\ playerBaselines = ret.store

----------------------------------------------------------------------------
(* Claims about the correlation engine *)

IsBonus == ret.op = "calculateCrossSignalBonus"

\* C10: the bonus is a function of the detection log alone: 0 with no
\* modules for fewer than 2 entries or a single distinct module, 8 for exactly
\* 2 distinct modules, 15 for 3 or more; the returned modules are non-empty
\* exactly when the bonus is positive, and then are the log's distinct modules.
C10_BonusTable ==
    IsBonus =>
        LET log      == ret.store[ret.playerId].recentDetections
            distinct == {log[i].module : i \in 1..Len(log)}
            k        == Cardinality(distinct)
            r        == ret.result
        IN  /\ (Len(log) < 2 \/ k = 1) => r.bonus = 0
            /\ (Len(log) >= 2 /\ k = 2) => r.bonus = 8
            /\ (Len(log) >= 2 /\ k >= 3) => r.bonus = 15
            /\ r.bonus \in {0, 8, 15}
            /\ (r.correlatedModules # << >>) <=> (r.bonus > 0)
            /\ r.bonus > 0 =>
                  /\ Range(r.correlatedModules) = distinct
                  /\ Len(r.correlatedModules) = k
            /\ playerBaselines = ret.store

\* three entries naming two modules: bonus 8
C10_Witness ==
    /\ IsBonus
    /\ Len(ret.store[ret.playerId].recentDetections) = 3
    /\ ret.result.bonus = 8
    /\ Len(ret.result.correlatedModules) = 2

----------------------------------------------------------------------------
(* Claims about the action tiers *)

IsAction == ret.op = "resolveAction"

Ordered(config) ==
    /\ RLe(config.shadowbanConfidence, config.autobanConfidence)
    /\ RLe(config.flagConfidence, config.shadowbanConfidence)

Rank(action) ==
    CASE action = "flag" -> 1
      [] action = "shadow_ban" -> 2
      [] action = "permanent_ban" -> 3
      [] OTHER -> 0

\* C11: with the engine ready and autobanConfidence >= shadowbanConfidence >=
\* flagConfidence, resolveAction gives permanent_ban exactly from
\* autobanConfidence up, shadow_ban exactly from shadowbanConfidence up to
\* below autobanConfidence, and flag otherwise; a higher confidence never gets
\* a less severe tier.
C11_ActionTiers ==
    (IsAction /\ ret.ready /\ Ordered(ret.config)) =>
        /\ ret.result = "permanent_ban" <=>
               RLe(ret.config.autobanConfidence, ret.confidence)
        /\ ret.result = "shadow_ban" <=>
               /\ RLe(ret.config.shadowbanConfidence, ret.confidence)
               /\ RLt(ret.confidence, ret.config.autobanConfidence)
        /\ ret.result = "flag" <=>
               RLt(ret.confidence, ret.config.shadowbanConfidence)
        /\ \A higher \in ActionConfidences :
               RLe(ret.confidence, higher) =>
                   Rank(resolveAction(higher, ret.config)) >= Rank(ret.result)

\* a confidence exactly at the default autobanConfidence: permanent_ban
C11_Witness ==
    /\ IsAction /\ ret.ready /\ ret.config = DEFAULT_CONFIG
    /\ ret.confidence = DEFAULT_CONFIG.autobanConfidence
    /\ ret.result = "permanent_ban"

\* C12: while the engine is not ready resolveAction returns flag, whatever
\* the confidence and the configuration.
C12_NotReadyFlags ==
    (IsAction /\ ~ret.ready) => ret.result = "flag"

\* not ready, a confidence above the default autobanConfidence: flag
C12_Witness ==
    /\ IsAction /\ ~ret.ready /\ ret.config = DEFAULT_CONFIG
    /\ RLt(DEFAULT_CONFIG.autobanConfidence, ret.confidence)
    /\ ret.result = "flag"

\* the results the calls made so far have produced
AllResults == UNION {Range(frame.results) : frame \in Frames}

\* C13: the recommendedAction of every result a plug-in produces is flag,
\* shadow_ban or permanent_ban, never temporary_ban or hardware_ban.
C13_ProducedActions ==
    \A result \in AllResults :
        result.recommendedAction \in {"flag", "shadow_ban", "permanent_ban"}

\* a result of the middle tier and one of the top tier have been produced
C13_Witness ==
    \A action \in {"shadow_ban", "permanent_ban"} :
        \E result \in AllResults : result.recommendedAction = action

----------------------------------------------------------------------------
(* Claims about the observer *)

Last(seq) == seq[Len(seq)]

\* the observer invocation saw the detection of its result at the end of the
\* player's log
RecordedBefore(note) ==
    /\ note.recorded # << >>
    /\ Last(note.recorded).module = note.result.module
    /\ Last(note.recorded).confidence = note.result.confidence

\* C14: while an observer is registered, every result appended to the output
\* is handed to the observer exactly once, with the event being processed,
\* after its detection was recorded, and the next plug-in is not invoked
\* before the observer's invocation has completed; with no observer nothing
\* is invoked and the result is still returned.
C14_ObserverPerResult ==
    /\ \A frame \in Frames :
          /\ Len(frame.notified) <= Len(frame.results)
          /\ \A k \in 1..Len(frame.notified) :
                /\ frame.notified[k].result \in Range(frame.results)
                /\ frame.notified[k].event = frame.event
                /\ RecordedBefore(frame.notified[k])
                /\ \A j \in 1..Len(frame.notified) :
                      frame.notified[j].module = frame.notified[k].module => j = k
          /\ frame.status = "awaiting" =>
                /\ frame.invoked = SubSeq(ModuleNames, 1, frame.idx)
                /\ frame.notified # << >>
                /\ Last(frame.notified).module = ModuleNames[frame.idx]
                /\ Last(frame.notified).result = Last(frame.results)
    /\ (IsCall /\ ret.ready) =>
          LET frame == calls[ret.call]
          IN  IF ret.observer = Null
              THEN frame.notified = << >> /\ frame.status = "resolved"
              ELSE /\ Len(frame.notified) = Len(frame.results)
                   /\ \A k \in 1..Len(frame.results) :
                         frame.notified[k].result = frame.results[k]
                   /\ (frame.results # << >> /\ ~frame.obsThrows) =>
                         frame.status = "awaiting"

\* the first plug-in produced a result, the observer was invoked with it and
\* the call is suspended before the second plug-in
C14_Witness ==
    /\ IsCall /\ ret.observer # Null
    /\ calls[ret.call].status = "awaiting"
    /\ calls[ret.call].invoked = <<"AimAnalysis">>
    /\ Len(calls[ret.call].results) = 1
    /\ Len(calls[ret.call].notified) = 1

\* C15: there is one observer slot: onDetection replaces the observer, and
\* every result is delivered to the observer registered last and to no other,
\* so none is delivered to two observers.
C15_SingleSlot ==
    /\ ret.op = "onDetection" => detectionCallback = ret.callback
    /\ IsCall =>
          /\ ret.observer = detectionCallback
          /\ \A k \in 1..Len(calls[ret.call].notified) :
                calls[ret.call].notified[k].observer = detectionCallback
    /\ \A frame \in Frames : Len(frame.notified) <= Len(frame.results)

\* a result went to f, then g was registered and the next result went to g
C15_Witness ==
    /\ Len(calls) = 2 /\ IsCall /\ detectionCallback = "g"
    /\ Len(calls[1].notified) = 1 /\ calls[1].notified[1].observer = "f"
    /\ Len(calls[2].notified) = 1 /\ calls[2].notified[1].observer = "g"


----------------------------------------------------------------------------
(* Claims about the baseline store *)

\* every baseline of the store but p's is the same after the step
OthersUnchanged(p) ==
    \A q \in DOMAIN playerBaselines \ {p} :
        q \in DOMAIN playerBaselines' /\ playerBaselines'[q] = playerBaselines[q]

\* C16: getOrCreateBaseline registers a baseline (eventCount 0, no windows,
\* empty log) only when the player has none; a later call leaves the
\* player's baseline registered with its windows intact; no operation removes
\* a baseline, so the set of registered players only grows.
C16_BaselineLifetime ==
    [][ /\ \A q \in DOMAIN playerBaselines : q \in DOMAIN playerBaselines'
        /\ ret'.op = "getOrCreateBaseline" =>
              /\ DOMAIN playerBaselines' = DOMAIN playerBaselines \cup {ret'.playerId}
              /\ OthersUnchanged(ret'.playerId)
              /\ IF ret'.playerId \in DOMAIN playerBaselines
                 THEN /\ playerBaselines'[ret'.playerId].metrics =
                            playerBaselines[ret'.playerId].metrics
                      /\ playerBaselines'[ret'.playerId].eventCount =
                            playerBaselines[ret'.playerId].eventCount
                      /\ playerBaselines'[ret'.playerId].createdAt =
                            playerBaselines[ret'.playerId].createdAt
                 ELSE playerBaselines'[ret'.playerId] =
                          [playerId |-> ret'.playerId, createdAt |-> now,
                           eventCount |-> 0, metrics |-> << >>,
                           recentDetections |-> << >>] ]_vars

\* a later getOrCreateBaseline for p1, whose two windows hold samples, with p2
\* registered too
C16_Witness ==
    /\ ret.op = "getOrCreateBaseline" /\ ret.playerId = "p1"
    /\ DOMAIN playerBaselines = Players
    /\ DOMAIN playerBaselines["p1"].metrics = {WMetric, "aim.trackingSmoothness"}
    /\ Len(playerBaselines["p1"].metrics[WMetric].values) >= 2
    /\ Len(playerBaselines["p1"].metrics["aim.trackingSmoothness"].values) >= 1

\* C19: pushSample on the window of (p, m) changes no other window of p and
\* no window of another player, and getMetricProfile leaves an existing
\* window as it is, creating an empty one only for a name p has no window for.
C19_WindowsIndependent ==
    [][ /\ ret'.op = "pushSample" =>
              /\ OthersUnchanged(ret'.playerId)
              /\ DOMAIN playerBaselines'[ret'.playerId].metrics =
                    DOMAIN playerBaselines[ret'.playerId].metrics
              /\ \A m \in DOMAIN playerBaselines[ret'.playerId].metrics \ {ret'.metric} :
                    playerBaselines'[ret'.playerId].metrics[m] =
                        playerBaselines[ret'.playerId].metrics[m]
        /\ ret'.op = "getMetricProfile" =>
              /\ OthersUnchanged(ret'.playerId)
              /\ \A m \in DOMAIN playerBaselines[ret'.playerId].metrics :
                    /\ m \in DOMAIN playerBaselines'[ret'.playerId].metrics
                    /\ playerBaselines'[ret'.playerId].metrics[m] =
                          playerBaselines[ret'.playerId].metrics[m]
              /\ ret'.metric \notin DOMAIN playerBaselines[ret'.playerId].metrics =>
                    playerBaselines'[ret'.playerId].metrics[ret'.metric].values = << >> ]_vars

\* a push to one window of p1 while its other window and the window of p2
\* hold different samples
C19_Witness ==
    /\ ret.op = "pushSample" /\ ret.playerId = "p1" /\ ret.metric = WMetric
    /\ \A x \in StoreWindows : HasProfile(x[1], x[2])
    /\ Len(playerBaselines["p1"].metrics[WMetric].values) = 2
    /\ playerBaselines["p1"].metrics["aim.trackingSmoothness"].values = <<R(2, 1)>>
    /\ playerBaselines["p2"].metrics[WMetric].values = <<R(1, 1), R(2, 1)>>

RECURSIVE NewerThan(_, _)
\* the entries of log with a timestamp after cutoff, in the order of log
NewerThan(log, cutoff) ==
    IF log = << >> THEN << >>
    ELSE IF Head(log).timestamp > cutoff
    THEN <<Head(log)>> \o NewerThan(Tail(log), cutoff)
    ELSE NewerThan(Tail(log), cutoff)

IsPrefix(a, b) == Len(a) <= Len(b) /\ SubSeq(b, 1, Len(a)) = a

\* C17: right after getOrCreateBaseline(playerId, config) at time now the
\* player's log holds exactly its former entries with a timestamp strictly
\* greater than now - config.correlationWindowMs, in their order; no other
\* step (recordDetection, calculateCrossSignalBonus, pushSample, time
\* passing) removes an entry.
C17_PruneOnAccess ==
    [][ \A p \in DOMAIN playerBaselines :
          IF now' = now /\ ret'.op = "getOrCreateBaseline" /\ ret'.playerId = p
          THEN playerBaselines'[p].recentDetections =
                   NewerThan(playerBaselines[p].recentDetections,
                             now - ret'.config.correlationWindowMs)
          ELSE IsPrefix(playerBaselines[p].recentDetections,
                        playerBaselines'[p].recentDetections) ]_vars

\* an access with the default window at 60 s that removed the detections
\* recorded at 0 s and kept the later ones
C17_Witness ==
    /\ ret.op = "getOrCreateBaseline" /\ ret.config = DEFAULT_CONFIG
    /\ now = DEFAULT_CONFIG.correlationWindowMs
    /\ playerBaselines["p1"].recentDetections # << >>
    /\ \A i \in 1..Len(playerBaselines["p1"].recentDetections) :
          playerBaselines["p1"].recentDetections[i].timestamp > 0
    /\ Len(playerBaselines["p1"].recentDetections) < Len(RecordedOf("p1"))

\* C18: a detection log never holds more than 50 entries: recordDetection
\* appends [module, confidence, current time] at the end and, when the log
\* then exceeds 50, drops the oldest entry, whatever the pruning did.
C18_LogCap ==
    [][ \A p \in DOMAIN playerBaselines' :
          /\ Len(playerBaselines'[p].recentDetections) <= 50
          /\ (now' = now /\ ret'.op = "recordDetection" /\ ret'.playerId = p) =>
                LET before == playerBaselines[p].recentDetections
                    entry  == [module |-> ret'.module,
                               confidence |-> ret'.confidence,
                               timestamp |-> now]
                IN  playerBaselines'[p].recentDetections =
                        IF Len(before) >= 50
                        THEN SubSeq(before, 2, Len(before)) \o <<entry>>
                        ELSE before \o <<entry>> ]_vars

\* a detection recorded on a full log: 50 entries, the last the new one, the
\* first still one of those recorded at time 0
C18_Witness ==
    /\ ret.op = "recordDetection"
    /\ Len(RecordedOf("p1")) >= 3
    /\ Len(playerBaselines["p1"].recentDetections) = 50
    /\ playerBaselines["p1"].recentDetections[1].timestamp = 0
    /\ playerBaselines["p1"].recentDetections[50] =
           [module |-> ret.module, confidence |-> ret.confidence, timestamp |-> now]
    /\ now > 0

----------------------------------------------------------------------------
(* Claims about the players *)

\* C20: processing an event of player A leaves the baseline of every other
\* player B (its windows and its detection log) as it was, and registers no
\* other player.
C20_OtherPlayersUntouched ==
    IsCall =>
        \A q \in DOMAIN playerBaselines \ {calls[ret.call].event.playerId} :
            q \in DOMAIN ret.store /\ playerBaselines[q] = ret.store[q]

\* an event of p1 produced a result at 60 s while the log of p2 holds a
\* detection recorded at 0 s and its window a sample
C20_Witness ==
    /\ IsCall /\ ret.ready
    /\ calls[ret.call].event.playerId = "p1"
    /\ calls[ret.call].results # << >>
    /\ now = DEFAULT_CONFIG.correlationWindowMs
    /\ "p2" \in DOMAIN playerBaselines
    /\ Len(playerBaselines["p2"].recentDetections) = 1
    /\ playerBaselines["p2"].recentDetections[1].timestamp = 0
    /\ Len(playerBaselines["p2"].metrics[WMetric].values) = 1

----------------------------------------------------------------------------
(* Claims about calls in flight *)

RECURSIVE ResultsInOrder(_)
\* the results of the frames, in the order of the frames
ResultsInOrder(frames) ==
    IF frames = << >> THEN << >>
    ELSE ResultsInOrder(SubSeq(frames, 1, Len(frames) - 1)) \o Last(frames).results

\* the snap angles the calls made so far carried, in call order
SnapAnglesCalled == [k \in 1..Len(calls) |-> calls[k].event.data.snapAngle]

\* C21: when several processTelemetry calls for one player are in flight at
\* once, the baseline operations of each event run without interleaving and
\* in call order: after n events carrying a metric its window holds the last
\* min(n, capacity) values in call order with the mean and stddev of exactly
\* these values, the k-th call was evaluated against a window of min(k,
\* capacity) samples, and the detection log holds the results' detections in
\* call order.
C21_InFlightSerialized ==
    calls # << >> =>
        /\ HasProfile("p1", WMetric)
        /\ LET w == WindowOf(<<"p1", WMetric>>)
               h == SnapAnglesCalled
               n == Len(w.values)
               log == playerBaselines["p1"].recentDetections
               results == ResultsInOrder(calls)
           IN  /\ w.values = LastK(h, Min(Len(h), w.maxSamples))
               /\ RMul(w.mean, R(n, 1)) = SumFrom(w.values, 1)
               /\ w.stddev = calculateStdDev(w.values)
               /\ \A k \in 1..Len(calls) :
                     \A j \in 1..Len(calls[k].results) :
                         calls[k].results[j].baselineSamples = Min(k, w.maxSamples)
               /\ Len(log) = Len(results)
               /\ \A i \in 1..Len(log) :
                     /\ log[i].module = results[i].module
                     /\ log[i].confidence = results[i].confidence

\* two calls with different snap angles and different scores are suspended
\* in the observer at once, and the window of capacity 1 holds the snap angle
\* of the second
C21_Witness ==
    /\ Len(calls) = 2
    /\ calls[1].status = "awaiting" /\ calls[2].status = "awaiting"
    /\ calls[1].results[1].confidence # calls[2].results[1].confidence
    /\ WindowOf(<<"p1", WMetric>>).maxSamples = 1
    /\ WindowOf(<<"p1", WMetric>>).values = <<calls[2].event.data.snapAngle>>
    /\ calls[1].event.data.snapAngle # calls[2].event.data.snapAngle

----------------------------------------------------------------------------
(* Claims about the plug-ins *)

\* the frame of the call ret describes, and its event
TheCall == calls[ret.call]
TheEvent == calls[ret.call].event

\* C22: engine ready, default configuration, a player with no prior history:
\* an aim_data event with snapAngle 150 and timeToTarget 50 and no other
\* field yields exactly one result, from AimAnalysis, with raw score 55 (30 +
\* 25, no bonus), confidence 0.55, severity medium and recommendedAction
\* flag, and records one detection for the player.
C22_EndToEnd ==
    (IsCall /\ ret.ready /\ TheEvent.eventType = "aim_data"
            /\ TheEvent.data = AimSnap /\ TheCall.config = DEFAULT_CONFIG
            /\ TheEvent.playerId \notin DOMAIN ret.store) =>
        /\ TheCall.status = "resolved"
        /\ Len(TheCall.results) = 1
        /\ LET r == TheCall.results[1]
           IN  /\ r.detected /\ r.module = "AimAnalysis"
               /\ r.score = 55
               /\ r.flags = <<"snapAngle", "timeToTarget">>
               /\ r.crossSignalCorrelation = << >>
               /\ r.confidence = R(55, 100)
               /\ r.severity = "medium"
               /\ r.recommendedAction = "flag"
        /\ LET log == playerBaselines[TheEvent.playerId].recentDetections
           IN  /\ Len(log) = 1
               /\ log[1].module = "AimAnalysis"
               /\ log[1].confidence = R(55, 100)
               /\ log[1].timestamp <= now

\* the event arrives for p2 at 60 s, after p1 was flagged
C22_Witness ==
    /\ IsCall /\ ret.ready /\ TheEvent = Event("p2", "aim_data", AimSnap)
    /\ TheCall.config = DEFAULT_CONFIG
    /\ DOMAIN ret.store = {"p1"} /\ ret.store["p1"].recentDetections # << >>
    /\ now = 60000
    /\ Len(TheCall.results) = 1 /\ TheCall.results[1].score = 55

----------------------------------------------------------------------------
(* Claims about replay *)

\* the results of the k-th call when the events processed so far are
\* replayed on a fresh engine with no time passing between them
ReplayedResults(k) ==
    processTelemetry(StoreAfter(<< >>, ReplayHistory \o SubSeq(calls, 1, k - 1)),
                     calls[k].event, calls[k].config, calls[k].obsThrows,
                     calls[k].faults).frame.results

\* C23: replaying the same ordered sequence of telemetry events against a
\* freshly initialized engine produces the same sequence of results whatever
\* the wall-clock times at which the events are processed: the results of
\* every call are those of the replay in which no time passes.
C23_ReplayDeterminism ==
    \A k \in 1..Len(calls) : calls[k].results = ReplayedResults(k)

\* C24: processTelemetry returns at most one result for an event, and a
\* returned result comes from the plug-in of the event's type (aim_data:
\* AimAnalysis, input_data: InputAnalysis, packet_data: PacketAnalysis,
\* stats_data: StatisticalAnalysis, behavior_data: BehavioralAnalysis); every
\* other plug-in returns absent and leaves the store as it is, whatever the
\* store holds.
C24_OneMatchingPlugin ==
    (IsCall /\ ret.ready) =>
        /\ Len(TheCall.results) <= 1
        /\ \A k \in 1..Len(TheCall.results) :
              TheCall.results[k].module = ModuleNames[TypeIndex(TheEvent)]
        /\ TheCall.invoked = ModuleNames
        /\ \A i \in 1..Len(ModuleNames) :
              i # TypeIndex(TheEvent) =>
                  \A store \in {<< >>, ret.store, playerBaselines} :
                      Handler(i, store, TheEvent, TheCall.config) =
                          [kind |-> "null", store |-> store, result |-> Undef]

\* a behavior_data event of p1, whose log holds a detection older than the
\* correlation window, yields the one result of BehavioralAnalysis
C24_Witness ==
    /\ IsCall /\ ret.ready /\ TheEvent.eventType = "behavior_data"
    /\ "p1" \in DOMAIN ret.store /\ ret.store["p1"].recentDetections # << >>
    /\ ret.store["p1"].recentDetections[1].timestamp = 0
    /\ now = 60000
    /\ Len(playerBaselines["p1"].recentDetections) = 1
    /\ Len(TheCall.results) = 1
    /\ TheCall.results[1].module = "BehavioralAnalysis"

\* the log of player p in store
LogOf(store, p) == IF p \in DOMAIN store THEN store[p].recentDetections ELSE << >>

\* C25: a plug-in appends a detection to the player's log if and only if it
\* returns a result for the event: in every processTelemetry step the
\* player's log becomes its unexpired entries followed by one entry per
\* returned result, carrying the result's module and confidence and the
\* current time; an event for which the plug-in returns absent or raises an
\* error adds no entry.
C25_RecordIffResult ==
    [][ Len(calls') > Len(calls) =>
          LET frame == Last(calls')
              p     == frame.event.playerId
              old   == LogOf(playerBaselines, p)
              new   == LogOf(playerBaselines', p)
          IN  IF ~Ready THEN new = old /\ frame.results = << >>
              ELSE /\ Len(frame.results) <= 1
                   /\ new = NewerThan(old, now - frame.config.correlationWindowMs)
                            \o [i \in 1..Len(frame.results) |->
                                   [module |-> frame.results[i].module,
                                    confidence |-> frame.results[i].confidence,
                                    timestamp |-> now]] ]_vars

\* an event of p1 without a result left the log empty, and the next event of
\* p1 produced a result and the log's one entry
C25_Witness ==
    /\ Len(calls) = 2 /\ IsCall
    /\ Ran(calls[1]) /\ calls[1].event.playerId = "p1"
    /\ calls[1].event.data # Undef /\ calls[1].results = << >>
    /\ calls[2].event.playerId = "p1" /\ Len(calls[2].results) = 1
    /\ Len(LogOf(playerBaselines, "p1")) = 1
    /\ LogOf(playerBaselines, "p1")[1].module = calls[2].results[1].module

----------------------------------------------------------------------------
(* Claims about the tracked metrics *)

\* the baseline-tracked metrics: the event type and payload field a metric is
\* fed from, its baseline flag, and the z-score the flag requires (beyond z
\* upwards when z > 0, downwards when z < 0)
TrackedMetrics ==
    { [type |-> "aim_data", field |-> "snapAngle", metric |-> "aim.snapAngle",
       flag |-> "snapAngle.baseline", z |-> R(2, 1)],
      [type |-> "aim_data", field |-> "trackingSmoothness",
       metric |-> "aim.trackingSmoothness",
       flag |-> "trackingSmoothness.baseline", z |-> R(2, 1)],
      [type |-> "input_data", field |-> "inputEntropy", metric |-> "input.entropy",
       flag |-> "inputEntropy.baseline", z |-> R(-2, 1)],
      [type |-> "packet_data", field |-> "packetRate", metric |-> "packet.rate",
       flag |-> "packetRate.baseline", z |-> R(5, 2)],
      [type |-> "stats_data", field |-> "kdRatio", metric |-> "stats.kdRatio",
       flag |-> "kdRatio.baseline", z |-> R(5, 2)],
      [type |-> "behavior_data", field |-> "reactionTime",
       metric |-> "behavior.reactionTime",
       flag |-> "reactionTime.baseline", z |-> R(-2, 1)] }

\* the value is within the metric's absolute limit and on the side of the
\* fixed bound its baseline flag requires
WithinLimits(metric, v) ==
    CASE metric = "aim.snapAngle" ->
             Gt(v, R(60, 1)) /\ ~Gt(v, R(HUMAN_MAX_SNAP_ANGLE, 1))
      [] metric = "aim.trackingSmoothness" ->
             Gt(v, R(8, 10)) /\ ~Gt(v, INHUMAN_TRACKING)
      [] metric = "input.entropy" -> ~RLt(v, NORMALIZED_ENTROPY_FLOOR)
      [] metric = "packet.rate" -> ~Gt(v, R(CHEAT_PACKET_RATE, 1))
      [] metric = "stats.kdRatio" ->
             Gt(v, R(4, 1)) /\ ~Gt(v, R(IMPOSSIBLE_KD, 1))
      [] metric = "behavior.reactionTime" ->
             RLt(v, R(150, 1)) /\ ~RLt(v, R(HUMAN_MIN_REACTION, 1))

\* the z-score lies beyond z, on z's side
Beyond(zScore, z) == IF RSign(z) > 0 THEN RootGt(zScore, z) ELSE RootLtR(zScore, z)

\* C26: for every baseline-tracked metric whose field the event carries, the
\* call appends the event's value to the metric's window, and a result of the
\* call carries the metric's baseline flag exactly when the window, the value
\* included as its newest element, holds at least minSamplesForBaseline
\* samples and the value deviates from that window beyond the flag's z-score
\* within the metric's limits; so the sample number minSamplesForBaseline is
\* the first one judged, and no earlier sample gets a baseline flag.
C26_PushThenEvaluate ==
    (IsCall /\ ret.ready /\ TheEvent.data # Undef) =>
        \A t \in TrackedMetrics :
            (TheEvent.eventType = t.type /\ TheEvent.data[t.field] # Undef) =>
                LET p   == TheEvent.playerId
                    v   == TheEvent.data[t.field]
                    old == ret.store[p].metrics[t.metric]
                    w   == playerBaselines[p].metrics[t.metric]
                    dev == deviatesFromBaseline(v, w, TheCall.config)
                IN  /\ w.values = Append(old.values, v)
                    /\ Last(w.values) = v
                    /\ \A k \in 1..Len(TheCall.results) :
                          (t.flag \in Range(TheCall.results[k].flags))
                          <=> /\ Len(w.values) >= TheCall.config.minSamplesForBaseline
                              /\ dev.deviates
                              /\ Beyond(dev.zScore, t.z)
                              /\ WithinLimits(t.metric, v)

\* under minSamplesForBaseline = 10 the tenth packet rate of p1, the first
\* one away from the nine before it, got the baseline flag
C26_Witness ==
    /\ IsCall /\ ret.ready /\ TheEvent.eventType = "packet_data"
    /\ TheCall.config.minSamplesForBaseline = 10
    /\ Len(ret.store["p1"].metrics["packet.rate"].values) = 9
    /\ Len(playerBaselines["p1"].metrics["packet.rate"].values) = 10
    /\ Len(TheCall.results) = 1
    /\ "packetRate.baseline" \in Range(TheCall.results[1].flags)

----------------------------------------------------------------------------
(* Claims about the correlation window *)

\* C27: the cross-signal bonus of a result returned for an event processed at
\* time now under config is the bonus of the player's detections recorded
\* less than config.correlationWindowMs before now: the result's correlated
\* modules and its cross-signal flag are those of that part of the log, every
\* correlated module has a detection in it, and the score exceeds the score
\* the event gets on an empty log by that bonus.
C27_BonusFromFreshOnly ==
    [][ Len(calls') > Len(calls) =>
          LET frame    == Last(calls')
              p        == frame.event.playerId
              window   == frame.config.correlationWindowMs
              old      == LogOf(playerBaselines, p)
              fresh    == NewerThan(old, now - window)
              expected == calculateCrossSignalBonus([recentDetections |-> fresh])
              bare     == processTelemetry(
                              [playerBaselines EXCEPT ![p].recentDetections = << >>],
                              frame.event, frame.config, FALSE, {}).frame.results
          IN  \A k \in 1..Len(frame.results) :
                  LET r == frame.results[k]
                  IN  /\ r.crossSignalCorrelation = expected.correlatedModules
                      /\ ("cross-signal" \in Range(r.flags)) <=> (expected.bonus > 0)
                      /\ \A i \in 1..Len(r.crossSignalCorrelation) :
                            \E j \in 1..Len(old) :
                                /\ old[j].module = r.crossSignalCorrelation[i]
                                /\ now - old[j].timestamp < window
                      /\ bare # << >> => r.score = bare[1].score + expected.bonus ]_vars

\* at time 60000 the log of p1 held detections of two modules from time 0,
\* and the result of the event processed then under the default
\* configuration carries no cross-signal flag and no correlated module
C27_Witness ==
    /\ IsCall /\ ret.ready /\ now = 60000
    /\ TheEvent.playerId = "p1"
    /\ TheCall.config.correlationWindowMs = 60000
    /\ Len(ret.store["p1"].recentDetections) = 2
    /\ \A j \in 1..2 : ret.store["p1"].recentDetections[j].timestamp = 0
    /\ ret.store["p1"].recentDetections[1].module
           # ret.store["p1"].recentDetections[2].module
    /\ Len(TheCall.results) = 1
    /\ TheCall.results[1].crossSignalCorrelation = << >>
    /\ "cross-signal" \notin Range(TheCall.results[1].flags)

----------------------------------------------------------------------------
(* Claims about absent fields *)

\* the samples of player p's window of metric m in store
ValuesOf(store, p, m) ==
    IF p \in DOMAIN store /\ m \in DOMAIN store[p].metrics
    THEN store[p].metrics[m].values ELSE << >>

\* the windows the check of payload field f pushes to
MetricsFedBy(f) ==
    {t.metric : t \in {u \in TrackedMetrics : u.field = f}}
        \cup (IF f = "timingVariance" THEN {"input.timingVariance"} ELSE {})

WindowNames == {t.metric : t \in TrackedMetrics} \cup {"input.timingVariance"}

\* the flags the check of payload field f can add
FlagsFor(f) == {f, f \o ".baseline"}

Without(event, f) == [event EXCEPT !.data[f] = Undef]

\* C28: when an event with a payload is processed by a ready engine, no
\* plug-in raises an error; a field absent from the payload adds no flag and
\* no sample to any window; and the checks of the present fields do not
\* depend on one another: taking one present field g out of the event changes
\* no window other than those g feeds, and a result for the smaller event has
\* the flags of the full event's result without those of g, and the same
\* score exactly when g added no flag.
C28_ChecksIndependentlyOptional ==
    [][ (Len(calls') > Len(calls) /\ Ready /\ Last(calls').event.data # Undef) =>
          LET frame   == Last(calls')
              e       == frame.event
              p       == e.playerId
              absent  == {f \in DOMAIN e.data : e.data[f] = Undef}
              present == DOMAIN e.data \ absent
          IN  /\ frame.caught = << >>
              /\ \A f \in absent :
                    /\ \A k \in 1..Len(frame.results) :
                          Range(frame.results[k].flags) \cap FlagsFor(f) = {}
                    /\ \A m \in MetricsFedBy(f) :
                          ValuesOf(playerBaselines', p, m) = ValuesOf(playerBaselines, p, m)
              /\ \A g \in present :
                    \A out \in {processTelemetry(playerBaselines, Without(e, g),
                                                 frame.config, FALSE, {})} :
                    LET less == out.frame.results
                    IN  /\ out.frame.caught = << >>
                        /\ \A m \in WindowNames \ MetricsFedBy(g) :
                              ValuesOf(out.store, p, m) = ValuesOf(playerBaselines', p, m)
                        /\ \A m \in MetricsFedBy(g) :
                              /\ ValuesOf(out.store, p, m) = ValuesOf(playerBaselines, p, m)
                              /\ ValuesOf(playerBaselines', p, m)
                                     = Append(ValuesOf(playerBaselines, p, m), e.data[g])
                        /\ frame.results = << >> => less = << >>
                        /\ less # << >> =>
                              /\ less[1].flags =
                                     SelectSeq(frame.results[1].flags,
                                               LAMBDA x : x \notin FlagsFor(g))
                              /\ less[1].score <= frame.results[1].score
                              /\ (less[1].score = frame.results[1].score)
                                     <=> (less[1].flags = frame.results[1].flags) ]_vars

\* an aim_data event of p1 carrying only snapAngle and timeToTarget got a
\* result with the flags of those two checks, no plug-in raised an error, and
\* p1 has no window for the absent trackingSmoothness
C28_Witness ==
    /\ IsCall /\ ret.ready /\ TheEvent = Event("p1", "aim_data", AimSnap)
    /\ TheCall.caught = << >>
    /\ Len(TheCall.results) = 1
    /\ {"snapAngle", "timeToTarget"} \subseteq Range(TheCall.results[1].flags)
    /\ "aim.trackingSmoothness" \notin DOMAIN playerBaselines["p1"].metrics
    /\ Len(playerBaselines["p1"].metrics["aim.snapAngle"].values) = 1

----------------------------------------------------------------------------
(* Claims about observer failures *)

\* C29: an observer that throws or whose promise rejects does not reject the
\* call and takes nothing back: no call is ever rejected; for every plug-in
\* whose delivery failed, its result is among the call's results and the log
\* it was delivered with, its own detection included, is still the beginning
\* of the player's log; and once the call has returned every plug-in of the
\* registry was invoked for the event.
C29_ObserverFailureIsolated ==
    \A frame \in Frames :
        /\ frame.status \in {"awaiting", "resolved"}
        /\ frame.status = "resolved" /\ Ran(frame) => frame.invoked = ModuleNames
        /\ \A k \in 1..Len(frame.caught) :
              \E j \in 1..Len(frame.notified) :
                  LET n == frame.notified[j]
                  IN  /\ n.module = frame.caught[k]
                      /\ n.result \in Range(frame.results)
                      /\ n.result.module = n.module
                      /\ n.recorded # << >>
                      /\ Last(n.recorded).module = n.module
                      /\ IsPrefix(n.recorded,
                                  LogOf(playerBaselines, frame.event.playerId))

\* the promise the observer returned for the result of the third plug-in was
\* rejected: the call returned that result, with all five plug-ins invoked
C29_Witness ==
    /\ ret.op = "resume" /\ ret.rejected
    /\ calls[ret.call].status = "resolved"
    /\ calls[ret.call].caught = <<"PacketAnalysis">>
    /\ calls[ret.call].invoked = ModuleNames
    /\ Len(calls[ret.call].results) = 1
    /\ calls[ret.call].results[1].module = "PacketAnalysis"
    /\ Last(LogOf(playerBaselines, "p1")).module = "PacketAnalysis"

----------------------------------------------------------------------------
(* Claims about the risk escalation *)

\* C30: calculateRiskEscalation(baseline, baseConfidence) returns
\* baseConfidence * 25 * f with f = 1.5 for a log of more than 5 entries, 1.2
\* for 4 or 5 entries and 1 otherwise; the value lies in [0, 100] for every
\* baseConfidence; and the baseline is left as it was.
C30_RiskEscalation ==
    ret.op = "calculateRiskEscalation" =>
        LET n == Len(ret.store[ret.playerId].recentDetections)
            f == IF n > 5 THEN R(3, 2) ELSE IF n \in {4, 5} THEN R(6, 5) ELSE R(1, 1)
        IN  /\ ret.result = RMul(RMul(ret.baseConfidence, R(25, 1)), f)
            /\ RLe(R(0, 1), ret.result) /\ RLe(ret.result, R(100, 1))
            /\ playerBaselines = ret.store

----------------------------------------------------------------------------
(* Claims about readiness *)

\* C31: readiness is monotone: no step clears bit 0x1 of the pipeline token
\* once it is set, and after a processTelemetry call that ran the plug-ins
\* every later call runs them too.
C31_ReadinessMonotone ==
    [][ /\ Ready => Ready'
        /\ \A i \in 1..Len(calls') : \A j \in i..Len(calls') :
              Ran(calls'[i]) => Ran(calls'[j]) ]_vars

\* the engine became ready with the beacon's response, and the two calls
\* made since, 60000 ms apart, both ran the plug-ins
C31_Witness ==
    /\ IsCall /\ Len(calls) = 2
    /\ Ran(calls[1]) /\ Ran(calls[2])
    /\ pipelineToken = 3 /\ now = 60000
    /\ LogOf(ret.store, "p1") # << >>
    /\ LogOf(ret.store, "p1")[1].timestamp = 0

\* C32: the engine becomes ready on every path of the license initialisation:
\* once _initLicenseSubsystem has passed its await or its catch clause, bit
\* 0x1 is set whether or not the beacon answered, the answer shows in bit 0x2
\* alone, a call made from then on passes the gate with either token, and the
\* engine is eventually ready for good.
C32_EventuallyReady ==
    /\ [](licensePc = "done" => pipelineToken \in {1, 3} /\ Ready)
    /\ [][ Len(calls') > Len(calls) /\ licensePc = "done" => Ran(Last(calls')) ]_vars
    /\ <>[]Ready

\* a call was gated off while the request was in flight; the request failed,
\* and the next call ran the plug-ins with the token at 1
C32_Witness ==
    /\ licensePc = "done" /\ pipelineToken = 1
    /\ IsCall /\ Len(calls) = 2
    /\ ~Ran(calls[1]) /\ Ran(calls[2])

----------------------------------------------------------------------------
(* Claims about scores *)

\* C33: every result a call returned has a score of at least 40 and the
\* confidence min(score / 100, 0.99), which lies between 0.40 and 0.99 and,
\* the configuration being the default one, is at or above flagConfidence;
\* and every entry of the detection log has a confidence between 0.40 and
\* 0.99.
C33_ConfidenceRange ==
    /\ \A frame \in Frames : \A k \in 1..Len(frame.results) :
          LET r == frame.results[k]
          IN  /\ r.score >= SCORE_THRESHOLD
              /\ r.confidence = IF r.score >= 99 THEN R(99, 100) ELSE R(r.score, 100)
              /\ RLe(R(40, 100), r.confidence) /\ RLe(r.confidence, R(99, 100))
              /\ r.confidence # R(1, 1)
              /\ RLe(DEFAULT_CONFIG.flagConfidence, r.confidence)
    /\ \A p \in DOMAIN playerBaselines :
          \A i \in 1..Len(playerBaselines[p].recentDetections) :
              LET c == playerBaselines[p].recentDetections[i].confidence
              IN  RLe(R(40, 100), c) /\ RLe(c, R(99, 100))

\* a result with score 135 was returned with confidence 0.99 and recorded
\* with it, after a result with score 40 and confidence 0.40
C33_Witness ==
    /\ IsCall /\ Len(calls) = 2
    /\ Len(calls[1].results) = 1 /\ calls[1].results[1].score = 40
    /\ calls[1].results[1].confidence = R(40, 100)
    /\ Len(calls[2].results) = 1 /\ calls[2].results[1].score = 135
    /\ calls[2].results[1].confidence = R(99, 100)
    /\ Last(LogOf(playerBaselines, "p1")).confidence = R(99, 100)

\* the bonus that went into a result, read off its correlated modules
BonusIn(r) ==
    IF Len(r.crossSignalCorrelation) >= 3 THEN 15
    ELSE IF Len(r.crossSignalCorrelation) >= 2 THEN 8 ELSE 0

\* C34: the cross-signal bonus alone never produces a detection: every
\* returned result carries a flag of one of the plug-in's own checks and an
\* own score, the score less the bonus of at most 15, of at least 25; and a
\* call that returned no result recorded no detection, whatever the log held.
C34_BonusAloneNeverDetects ==
    /\ \A frame \in Frames : \A k \in 1..Len(frame.results) :
          LET r == frame.results[k]
          IN  /\ Range(r.flags) \ {"cross-signal"} # {}
              /\ ("cross-signal" \in Range(r.flags)) <=> (BonusIn(r) > 0)
              /\ r.score - BonusIn(r) >= 25
    /\ (IsCall /\ TheCall.results = << >>) =>
          /\ Len(LogOf(playerBaselines, TheEvent.playerId))
                 <= Len(LogOf(ret.store, TheEvent.playerId))
          /\ Range(LogOf(playerBaselines, TheEvent.playerId))
                 \subseteq Range(LogOf(ret.store, TheEvent.playerId))

\* the log of p1 held detections of three plug-ins, all within the window,
\* and an aim_data event that triggers no check of AimAnalysis got no result
\* and left the log as it was
C34_Witness ==
    /\ IsCall /\ now = 0
    /\ TheEvent = Event("p1", "aim_data", [AimNone EXCEPT !.snapAngle = R(10, 1),
                                                          !.headshotPct = R(10, 1)])
    /\ Len(Unique(ModulesOf(LogOf(ret.store, "p1")))) = 3
    /\ TheCall.results = << >>
    /\ LogOf(playerBaselines, "p1") = LogOf(ret.store, "p1")

\* C35: a detection that is the first or the second entry of the player's
\* log, the log holding the detections inside the correlation window,
\* carries no cross-signal bonus: in every processTelemetry step whose call
\* found fewer than 2 unexpired detections in the log, a returned result has
\* no cross-signal flag, no correlated module and its own checks' score; a
\* result with a bonus is the third entry of the log or a later one.
C35_NoBonusBeforeThird ==
    [][ Len(calls') > Len(calls) =>
          LET frame == Last(calls')
              p     == frame.event.playerId
              fresh == NewerThan(LogOf(playerBaselines, p),
                                 now - frame.config.correlationWindowMs)
          IN  \A k \in 1..Len(frame.results) :
                  LET r == frame.results[k]
                  IN  /\ Len(fresh) < 2 =>
                            /\ "cross-signal" \notin Range(r.flags)
                            /\ r.crossSignalCorrelation = << >>
                            /\ \A out \in {processTelemetry(
                                              [q \in DOMAIN playerBaselines |->
                                                  [playerBaselines[q] EXCEPT
                                                      !.recentDetections = << >>]],
                                              frame.event, frame.config, FALSE, {})} :
                                  out.frame.results = <<r>>
                      /\ ("cross-signal" \in Range(r.flags)
                             \/ r.crossSignalCorrelation # << >>) =>
                            /\ Len(LogOf(playerBaselines', p)) >= 3
                            /\ Last(LogOf(playerBaselines', p)).module = r.module ]_vars

\* the first two detections of p1, of AimAnalysis and BehavioralAnalysis at
\* the same time, were returned without a bonus
C35_Witness ==
    /\ IsCall /\ Len(calls) = 2
    /\ LogOf(ret.store, "p1") # << >>
    /\ Len(LogOf(playerBaselines, "p1")) = 2
    /\ LogOf(playerBaselines, "p1")[1].module = "AimAnalysis"
    /\ LogOf(playerBaselines, "p1")[2].module = "BehavioralAnalysis"
    /\ LogOf(playerBaselines, "p1")[1].timestamp = LogOf(playerBaselines, "p1")[2].timestamp
    /\ Len(calls[2].results) = 1
    /\ calls[2].results[1].crossSignalCorrelation = << >>
    /\ "cross-signal" \notin Range(calls[2].results[1].flags)

----------------------------------------------------------------------------
(* Claims about the degenerate window *)

\* C36: the branch of deviatesFromBaseline for a standard deviation below
\* 0.001 never contributes to a verdict: a result of a processTelemetry call
\* carries the baseline flag of a tracked metric only if the engine was ready
\* and the standard deviation of the metric's window, the event's value
\* included, is at least 0.001; a value the branch reports as deviating gets
\* no baseline flag, the z-score of the branch being 0.
C36_DegenerateNeverFlags ==
    (IsCall /\ TheEvent.data # Undef) =>
        \A t \in TrackedMetrics :
            (TheEvent.eventType = t.type /\ TheEvent.data[t.field] # Undef) =>
                LET w == playerBaselines[TheEvent.playerId].metrics[t.metric]
                IN  \A k \in 1..Len(TheCall.results) :
                        /\ (t.flag \in Range(TheCall.results[k].flags)) =>
                              /\ ret.ready
                              /\ ~RootLt(w.stddev, Epsilon)
                        /\ RootLt(w.stddev, Epsilon) =>
                              /\ deviatesFromBaseline(TheEvent.data[t.field], w,
                                                      TheCall.config).zScore = ZeroRoot
                              /\ t.flag \notin Range(TheCall.results[k].flags)

\* a packet rate of 100.002 after nine or more of 100: the window's standard
\* deviation is below 0.001, the rate is more than 0.001 away from the mean,
\* the branch reported it as deviating, and the result of the call, raised by
\* the other checks, has no baseline flag
C36_Witness ==
    /\ IsCall /\ ret.ready /\ TheEvent.eventType = "packet_data"
    /\ TheEvent.data.packetRate = R(50001, 500)
    /\ LET w == playerBaselines["p1"].metrics["packet.rate"]
       IN  /\ Len(w.values) >= TheCall.config.minSamplesForBaseline
           /\ RootLt(w.stddev, Epsilon)
           /\ w.stddev # Sqrt(Zero)
           /\ deviatesFromBaseline(TheEvent.data.packetRate, w,
                                   TheCall.config).deviates
    /\ Len(TheCall.results) = 1
    /\ "packetRate.baseline" \notin Range(TheCall.results[1].flags)

\* C37 as claimed: under the default configuration, for every tracked metric
\* an event carries, deviatesFromBaseline applied to the value just pushed
\* returns deviates = false whenever the window holds fewer than 9 samples,
\* and no result carries the metric's baseline flag.
C37_AsClaimed ==
    (IsCall /\ ret.ready /\ TheCall.config = DEFAULT_CONFIG
            /\ TheEvent.data # Undef) =>
        \A t \in TrackedMetrics :
            (TheEvent.eventType = t.type /\ TheEvent.data[t.field] # Undef) =>
                LET v == TheEvent.data[t.field]
                    w == playerBaselines[TheEvent.playerId].metrics[t.metric]
                IN  (Last(w.values) = v /\ Len(w.values) < 9) =>
                        /\ ~deviatesFromBaseline(v, w, DEFAULT_CONFIG).deviates
                        /\ \A k \in 1..Len(TheCall.results) :
                              t.flag \notin Range(TheCall.results[k].flags)

\* C37 amended: under the default configuration, for every tracked metric an
\* event carries, deviatesFromBaseline applied to the value just pushed into
\* a window of fewer than 9 samples returns deviates = false when the
\* window's standard deviation is at least 0.001, and a z-score of 0 when it
\* is below; in both cases no result carries the metric's baseline flag.
C37_NoFlagBeforeNinth ==
    (IsCall /\ ret.ready /\ TheCall.config = DEFAULT_CONFIG
            /\ TheEvent.data # Undef) =>
        \A t \in TrackedMetrics :
            (TheEvent.eventType = t.type /\ TheEvent.data[t.field] # Undef) =>
                LET v == TheEvent.data[t.field]
                    w == playerBaselines[TheEvent.playerId].metrics[t.metric]
                IN  (Last(w.values) = v /\ Len(w.values) < 9) =>
                        \A dev \in {deviatesFromBaseline(v, w, DEFAULT_CONFIG)} :
                            /\ ~RootLt(w.stddev, Epsilon) => ~dev.deviates
                            /\ RootLt(w.stddev, Epsilon) => dev.zScore = ZeroRoot
                            /\ \A k \in 1..Len(TheCall.results) :
                                  t.flag \notin Range(TheCall.results[k].flags)

\* the eighth packet rate of p1, 101 after seven of 100: its z-score is
\* 7 / sqrt(8), the largest a sample of eight can have and below 2.5, so it
\* does not deviate and the result of the call has no baseline flag
C37_Witness ==
    /\ IsCall /\ ret.ready /\ TheCall.config = DEFAULT_CONFIG
    /\ TheEvent.eventType = "packet_data"
    /\ TheEvent.data.packetRate = R(101, 1)
    /\ LET w   == playerBaselines["p1"].metrics["packet.rate"]
           dev == deviatesFromBaseline(R(101, 1), w, DEFAULT_CONFIG)
       IN  /\ Len(w.values) = 8
           /\ Last(w.values) = R(101, 1)
           /\ dev.zScore = [sgn |-> 1, sq |-> R(49, 8)]
           /\ ~dev.deviates
    /\ Len(TheCall.results) = 1
    /\ "packetRate.baseline" \notin Range(TheCall.results[1].flags)

\* C38: under the default configuration with the engine ready, the severity
\* and the recommended action of every returned result are consistent: a
\* result with recommendedAction permanent_ban has severity critical, a result
\* with severity medium has recommendedAction flag, and a result with
\* severity high is not permanent_ban.
C38_SeverityMatchesAction ==
    \A frame \in Frames :
        (Ran(frame) /\ frame.config = DEFAULT_CONFIG) =>
            \A k \in 1..Len(frame.results) :
                LET r == frame.results[k]
                IN  /\ r.severity \in {"critical", "high", "medium"}
                    /\ r.recommendedAction \in {"permanent_ban", "shadow_ban", "flag"}
                    /\ r.recommendedAction = "permanent_ban" => r.severity = "critical"
                    /\ r.severity = "medium" => r.recommendedAction = "flag"
                    /\ r.severity = "high" => r.recommendedAction # "permanent_ban"

\* a result of severity high with action flag (score 63, confidence below
\* shadowbanConfidence) followed by one of severity critical with action
\* shadow_ban (score 83, confidence below autobanConfidence): the pairs the
\* three rules leave open besides the matching ones
C38_Witness ==
    /\ IsCall /\ ret.ready /\ Len(calls) = 2
    /\ calls[1].config = DEFAULT_CONFIG /\ calls[2].config = DEFAULT_CONFIG
    /\ Len(calls[1].results) = 1 /\ Len(calls[2].results) = 1
    /\ calls[1].results[1].score = 63
    /\ calls[1].results[1].severity = "high"
    /\ calls[1].results[1].recommendedAction = "flag"
    /\ calls[2].results[1].score = 83
    /\ calls[2].results[1].severity = "critical"
    /\ calls[2].results[1].recommendedAction = "shadow_ban"

----------------------------------------------------------------------------
(* Claims about termination *)

\* C39: provided every observer invocation eventually completes, every
\* processTelemetry call eventually resolves; there is no timeout: a
\* suspended call moves on by the completion of its own observer invocation
\* and by nothing else; and a suspended call does not block other calls: a
\* call made meanwhile runs its plug-ins, all five of them if it returns at
\* once.
C39_CallsResolve ==
    /\ \A c \in 1..MaxCalls :
           (c <= Len(calls)) ~> (c <= Len(calls) /\ calls[c].status = "resolved")
    /\ [][ \A c \in 1..Len(calls) :
              /\ calls[c].status = "awaiting"
                     /\ ~(Len(calls') = Len(calls) /\ ret'.op = "resume"
                             /\ ret'.call = c)
                    => Len(calls') >= c /\ calls'[c] = calls[c]
              /\ calls[c].status = "resolved"
                    => Len(calls') >= c /\ calls'[c] = calls[c] ]_vars
    /\ [][ Len(calls') > Len(calls) =>
              /\ Ran(Last(calls'))
              /\ Last(calls').status = "resolved"
                    => Last(calls').invoked = ModuleNames ]_vars

\* the first call is suspended in the observer invoked for its result, and
\* the second call, made meanwhile, ran all five plug-ins and returned a
\* result
C39_Witness ==
    /\ IsCall /\ Len(calls) = 2
    /\ calls[1].status = "awaiting" /\ calls[1].results # << >>
    /\ calls[2].status = "resolved"
    /\ calls[2].invoked = ModuleNames
    /\ calls[2].results # << >>

=============================================================================
